---- MODULE Spec2Model ----
(***************************************************************************)
(* Model of the content-quality / structuring / graph-synchronisation /    *)
(* validation core of server/app.py.                                       *)
(*                                                                         *)
(* Python strings are modelled in two ways:                                *)
(*   - Str : a sequence of one-character strings, for the short names the  *)
(*     synchronizer and the validator handle;                              *)
(*   - Text: a run-length encoded string, a sequence of blocks             *)
(*     [c |-> character, n |-> repetitions], for the documents the quality *)
(*     scorer and the structurer measure against 100, 500, 1000 and 50000  *)
(*     characters.                                                         *)
(* Characters outside ASCII are named by their code point ("U7CFB").       *)
(* Python floats are modelled as exact fractions [n |-> num, d |-> den].   *)
(***************************************************************************)
EXTENDS Integers, Sequences, FiniteSets, TLC, Bags

VARIABLES
    ai_analysis,    \* synchronizer: the analysis result currently held
    sync_input,     \* synchronizer: the argument of the latest call
    sync_first,     \* synchronizer: the argument of the first call
    sync_calls,     \* synchronizer: number of calls made so far
    q_text,         \* quality scorer: the input text (Text)
    q_metrics,      \* quality scorer: the returned metrics, or NoResult
    v_analysis,     \* validator: the ai_analysis argument
    v_text,         \* validator: the text_content argument (Str)
    v_result,       \* validator: the returned validation_result, or NoResult
    d_text,         \* structurer: the text_content argument (sequence of lines)
    d_filename,     \* structurer: the filename argument
    d_structure,    \* structurer: the returned structure, or NoResult
    u_url,          \* source resolver: the url argument (Str)
    u_is_video,     \* source resolver: the returned bool, or NoResult
    p_content,      \* pdf extractor: the content argument as the reader sees it
    p_page_num,     \* pdf extractor: page_num, the pages handled so far
    p_stats,        \* pdf extractor: extraction_stats
    p_text,         \* pdf extractor: text, the segments appended so far
    p_result,       \* pdf extractor: the returned string, or NoResult
    r_endpoint,     \* routes: the endpoint called
    r_request,      \* routes: the request: a dict, or the uploaded text and filename
    r_route,        \* routes: the route taken: file, web or video
    r_stage,        \* routes: the position in the handler
    r_nested,       \* routes: scrape_website is running for analyze_document
    r_url,          \* routes: url (Str)
    r_fetch,        \* routes: what the fetch of the page did
    r_video_info,   \* routes: video_info as the handler returned it
    r_content,      \* routes: text_content / combined_content (Text)
    r_filename,     \* routes: filename / virtual_filename (Str)
    r_outcome,      \* routes: what the analyzer call did
    r_analysis,     \* routes: ai_analysis
    r_synchronized, \* routes: synchronized_data
    r_args,         \* routes: the analysis given to the synchronizer and the validator
    r_steps,        \* routes: the calls made so far
    r_result,       \* routes: the returned result, or NoResult
    f_raw,          \* the text the extractor got from the uploaded bytes
    f_text,         \* text_content: what extract_text_from_file returned
    f_stage,        \* where analyze_document is with the file
    f_report,       \* the lengths and content analyze_document reported
    l_base,         \* base_url: the url of the page
    l_anchors,      \* the anchors of the page, in document order
    l_max_pages,    \* max_pages as requested
    l_links,        \* what discover_important_subpages returned
    h_url,          \* the url of the video
    h_fetch,        \* what the fetch of the watch page does
    h_info,         \* video_info as the platform handler returned it
    h_content,      \* combined_content, or the error of the missing key
    i_text,         \* the text given to improve_text_content
    i_metrics,      \* the quality metrics given with it
    i_once,         \* what improve_text_content returns of i_text
    i_twice,        \* what it returns of that result
    x_input,        \* the analysis result handed to the synchronizer
    x_hash_order,   \* the order the interpreter's string hashing gives the names
    x_runs          \* what the synchronizer returned of x_input, run by run

syncVars == <<ai_analysis, sync_input, sync_first, sync_calls>>
qualVars == <<q_text, q_metrics>>
valVars == <<v_analysis, v_text, v_result>>
docVars == <<d_text, d_filename, d_structure>>
urlVars == <<u_url, u_is_video>>
pdfVars == <<p_content, p_page_num, p_stats, p_text, p_result>>
routeVars == <<r_endpoint, r_request, r_route, r_stage, r_nested, r_url, r_fetch, r_video_info, r_content, r_filename, r_outcome, r_analysis, r_synchronized, r_args, r_steps, r_result>>
fileVars == <<f_raw, f_text, f_stage, f_report>>
linkVars == <<l_base, l_anchors, l_max_pages, l_links>>
handlerVars == <<h_url, h_fetch, h_info, h_content>>
improveVars == <<i_text, i_metrics, i_once, i_twice>>
runVars == <<x_input, x_hash_order, x_runs>>
vars == <<syncVars, qualVars, valVars, docVars, urlVars, pdfVars, routeVars, fileVars, linkVars, handlerVars, improveVars, runVars>>

\* The value of a result variable before the operation has returned.
NoResult == [returned |-> FALSE]

-----------------------------------------------------------------------------
(* Generic helpers *)

RECURSIVE SeqSum(_)
SeqSum(s) == IF s = <<>> THEN 0 ELSE Head(s) + SeqSum(Tail(s))

Range(s) == {s[i] : i \in 1..Len(s)}

SeqsUpTo(S, k) == UNION {[1..m -> S] : m \in 0..k}

\* All orders in which the elements of a finite set can be listed.
Orderings(S) ==
    {f \in [1..Cardinality(S) -> S] : \A i, j \in 1..Cardinality(S) : f[i] = f[j] => i = j}

Min(a, b) == IF a <= b THEN a ELSE b
Max(a, b) == IF a >= b THEN a ELSE b

-----------------------------------------------------------------------------
(* Str: Python str as a sequence of characters *)

WhitespaceChars == {" ", "\n", "\t"}

RECURSIVE LStrip(_)
LStrip(s) ==
    IF s = <<>> THEN s
    ELSE IF Head(s) \in WhitespaceChars THEN LStrip(Tail(s)) ELSE s

RECURSIVE RStrip(_)
RStrip(s) ==
    IF s = <<>> THEN s
    ELSE IF s[Len(s)] \in WhitespaceChars THEN RStrip(SubSeq(s, 1, Len(s) - 1)) ELSE s

\* str.strip()
Strip(s) == RStrip(LStrip(s))

\* The ASCII letters, upper case and lower case in the same order.
UpperLetters ==
    <<"A", "B", "C", "D", "E", "F", "G", "H", "I", "J", "K", "L", "M",
      "N", "O", "P", "Q", "R", "S", "T", "U", "V", "W", "X", "Y", "Z">>
LowerLetters ==
    <<"a", "b", "c", "d", "e", "f", "g", "h", "i", "j", "k", "l", "m",
      "n", "o", "p", "q", "r", "s", "t", "u", "v", "w", "x", "y", "z">>
UpperChars == Range(UpperLetters)

-----------------------------------------------------------------------------
(* Fractions: the exact values of the Python float expressions *)

RECURSIVE GCD(_, _)
GCD(a, b) == IF b = 0 THEN a ELSE GCD(b, a % b)

\* n/d in lowest terms, d > 0.
Frac(n, d) == LET g == GCD(n, d) IN IF n = 0 THEN [n |-> 0, d |-> 1] ELSE [n |-> n \div g, d |-> d \div g]

FZero == Frac(0, 1)
FOne == Frac(1, 1)
FAdd(a, b) ==
    LET g == GCD(a.d, b.d) IN Frac(a.n * (b.d \div g) + b.n * (a.d \div g), (a.d \div g) * b.d)
FSub(a, b) ==
    LET g == GCD(a.d, b.d) IN Frac(a.n * (b.d \div g) - b.n * (a.d \div g), (a.d \div g) * b.d)
FMul(a, b) ==
    LET g1 == GCD(a.n, b.d)
        g2 == GCD(b.n, a.d)
    IN  IF a.n = 0 \/ b.n = 0 THEN FZero
        ELSE Frac((a.n \div g1) * (b.n \div g2), (a.d \div g2) * (b.d \div g1))
FLe(a, b) == LET g == GCD(a.d, b.d) IN a.n * (b.d \div g) <= b.n * (a.d \div g)
FLt(a, b) == FLe(a, b) /\ a # b
FMin(a, b) == IF FLe(a, b) THEN a ELSE b

-----------------------------------------------------------------------------
(* Text: Python str as a run-length encoded sequence of blocks *)

\* The text of n repetitions of character c.
Rep(c, n) == IF n = 0 THEN <<>> ELSE <<[c |-> c, n |-> n]>>

\* Concatenation, merging the two runs that meet when they are of one character.
TCat(a, b) ==
    IF a = <<>> THEN b
    ELSE IF b = <<>> THEN a
    ELSE IF a[Len(a)].c = b[1].c
         THEN SubSeq(a, 1, Len(a) - 1)
                \o <<[c |-> b[1].c, n |-> a[Len(a)].n + b[1].n]>>
                \o Tail(b)
         ELSE a \o b

\* A sequence of blocks made canonical: the neighbouring blocks of one
\* character merged into one.
IsBlock(b) == b.n > 0
MergeRunsOf(blocks) ==
    LET last(i) == CHOOSE j \in i..Len(blocks) :
                       /\ \A m \in i..j : blocks[m].c = blocks[i].c
                       /\ j = Len(blocks) \/ blocks[j + 1].c # blocks[i].c
    IN  SelectSeq([i \in 1..Len(blocks) |->
                      IF i = 1 \/ blocks[i].c # blocks[i - 1].c
                      THEN [c |-> blocks[i].c,
                            n |-> SeqSum([m \in 1..(last(i) - i + 1) |-> blocks[i + m - 1].n])]
                      ELSE [c |-> blocks[i].c, n |-> 0]],
                  IsBlock)
\* (the blocks are worked out once, then merged)
MergeRuns(blocks) == CHOOSE merged \in {MergeRunsOf(b) : b \in {blocks}} : TRUE

\* The text spelled by a sequence of characters.
RECURSIVE T(_)
T(chars) == IF chars = <<>> THEN <<>> ELSE TCat(Rep(Head(chars), 1), T(Tail(chars)))

\* The same text, worked out without recursion: for the long strings.
TextOf(chars) == MergeRuns([i \in 1..Len(chars) |-> [c |-> chars[i], n |-> 1]])

\* The texts of a sequence put end to end.
RECURSIVE Blocks(_)
Blocks(texts) == IF texts = <<>> THEN <<>> ELSE Head(texts) \o Blocks(Tail(texts))
TCatAll(texts) == MergeRuns(Blocks(texts))

\* len(text)
\* (the sum of the block lengths: the size of the bag that holds i as many
\* times as block i is long)
TLen(t) == BagCardinality([i \in 1..Len(t) |-> t[i].n])

\* text[:k]
RECURSIVE TTake(_, _)
TTake(t, k) ==
    IF t = <<>> \/ k <= 0 THEN <<>>
    ELSE IF Head(t).n >= k THEN <<[c |-> Head(t).c, n |-> k]>>
    ELSE <<Head(t)>> \o TTake(Tail(t), k - Head(t).n)

\* text.count(c) for a single character c, and the number of characters of a class
TCountIn(t, class) == SeqSum([i \in 1..Len(t) |-> IF t[i].c \in class THEN t[i].n ELSE 0])
TCount(t, c) == TCountIn(t, {c})

\* text.count(c + c): non-overlapping occurrences of a doubled character
TCountDouble(t, c) == SeqSum([i \in 1..Len(t) |-> IF t[i].c = c THEN t[i].n \div 2 ELSE 0])

\* text.count(a + b) for two different characters a, b
TCountPair(t, a, b) ==
    Cardinality({i \in 1..(Len(t) - 1) : t[i].c = a /\ t[i + 1].c = b})

\* (a + b) in text, for two different characters a, b
TContainsPair(t, a, b) == TCountPair(t, a, b) > 0

\* text.split(): the maximal runs of non-whitespace characters, in order
RECURSIVE TSplitFrom(_, _, _)
TSplitFrom(t, i, word) ==
    IF i > Len(t) THEN (IF word = <<>> THEN <<>> ELSE <<word>>)
    ELSE IF t[i].c \in WhitespaceChars
         THEN (IF word = <<>> THEN <<>> ELSE <<word>>) \o TSplitFrom(t, i + 1, <<>>)
         ELSE TSplitFrom(t, i + 1, Append(word, t[i]))
TSplit(t) == TSplitFrom(t, 1, <<>>)

\* seq[:k]
Take(s, k) == SubSeq(s, 1, Min(Len(s), k))

-----------------------------------------------------------------------------
(* Quality Scorer: analyze_content_quality, get_quality_grade *)

QualityTextLimit == 50000
FullLengthChars == 500
FullSentenceCount == 5
GarbledSampleChars == 1000
UniquenessSampleWords == 500
FullKeywordCount == 5
FullParagraphCount == 3
FullTitleCount == 2

\* '.', U+3002, '!', U+FF01, '?', U+FF1F
SentenceTerminators == {".", "U3002", "!", "UFF01", "?", "UFF1F"}

\* key_terms, each two CJK characters: U+7CFB U+7EDF, U+6280 U+672F, ...
KeyTerms ==
    <<<<"U7CFB", "U7EDF">>, <<"U6280", "U672F">>, <<"U67B6", "U6784">>,
      <<"U6A21", "U5757">>, <<"U529F", "U80FD">>, <<"U6570", "U636E">>,
      <<"U5206", "U6790">>>>

\* The characters c of the model with ord(c) > 127 and c.isalnum():
\* the CJK ideographs (U+3001, U+3002, U+FF01, U+FF1F are punctuation).
NonAsciiAlnum ==
    UNION {{KeyTerms[i][1], KeyTerms[i][2]} : i \in 1..Len(KeyTerms)} \cup {"U4E00"}

\* text = text[:50000] when longer
QualityWindow(text) ==
    IF TLen(text) > QualityTextLimit THEN TTake(text, QualityTextLimit) ELSE text

LengthScoreUnclamped(text) == Frac(TLen(text), FullLengthChars)

LengthScore(text) == FMin(FOne, Frac(TLen(text), FullLengthChars))

SentenceScore(text) ==
    FMin(FOne, Frac(TCountIn(text, SentenceTerminators), FullSentenceCount))

CompletenessScoreNoHalving(text) == FAdd(LengthScore(text), SentenceScore(text))

CompletenessScore(text) ==
    FMul(FAdd(LengthScore(text), SentenceScore(text)), Frac(1, 2))

ReadabilityScore(text) ==
    IF TLen(text) = 0 THEN FZero
    ELSE
    LET sample_text == IF TLen(text) > GarbledSampleChars
                       THEN TTake(text, GarbledSampleChars) ELSE text
        garbled_chars == TCountIn(sample_text, NonAsciiAlnum)
        garbled_ratio == Frac(garbled_chars, TLen(sample_text))
        words == Take(TSplit(text), UniquenessSampleWords)
        uniqueness_ratio == IF Len(words) > 0
                            THEN Frac(Cardinality(Range(words)), Len(words))
                            ELSE FOne
    IN  FMul(FSub(FOne, FMin(garbled_ratio, Frac(1, 2))), uniqueness_ratio)

InformationDensity(text) ==
    LET keyword_count ==
            Cardinality({i \in 1..Len(KeyTerms) :
                            TContainsPair(text, KeyTerms[i][1], KeyTerms[i][2])})
    IN  FMin(FOne, Frac(keyword_count, FullKeywordCount))

StructureIntegrity(text) ==
    LET paragraph_count == TCountDouble(text, "\n") + 1
        paragraph_score == FMin(FOne, Frac(paragraph_count, FullParagraphCount))
        title_count == TCount(text, "#") + TCountPair(text, "U4E00", "U3001")
                        + TCountPair(text, "1", ".")
        title_score == FMin(FOne, Frac(title_count, FullTitleCount))
    IN  FMul(FAdd(paragraph_score, title_score), Frac(1, 2))

\* The except branch (every score 0.5) is not modelled: no statement of the
\* try block raises on a str argument.
AnalyzeContentQuality(text_in) ==
    IF text_in = <<>>
    THEN [returned |-> TRUE,
          completeness_score |-> FZero, readability_score |-> FZero,
          information_density |-> FZero, structure_integrity |-> FZero,
          overall_score |-> FZero]
    ELSE
    LET text == QualityWindow(text_in)
        completeness_score == CompletenessScore(text)
        readability_score == ReadabilityScore(text)
        info_density == InformationDensity(text)
        structure_integrity == StructureIntegrity(text)
        \* the four weighted terms, the readability term added last
        overall_score ==
            FAdd(FAdd(FAdd(FMul(completeness_score, Frac(3, 10)),
                           FMul(info_density, Frac(2, 10))),
                      FMul(structure_integrity, Frac(2, 10))),
                 FMul(readability_score, Frac(3, 10)))
    IN  [returned |-> TRUE,
         completeness_score |-> completeness_score,
         readability_score |-> readability_score,
         information_density |-> info_density,
         structure_integrity |-> structure_integrity,
         overall_score |-> overall_score]

\* The grade labels, by their letter: "... (A)", ..., "... (F)".
GradeA == "A"
GradeB == "B"
GradeC == "C"
GradeD == "D"
GradeF == "F"

GetQualityGrade(overall_score) ==
    IF FLe(Frac(9, 10), overall_score) THEN GradeA
    ELSE IF FLe(Frac(8, 10), overall_score) THEN GradeB
    ELSE IF FLe(Frac(7, 10), overall_score) THEN GradeC
    ELSE IF FLe(Frac(6, 10), overall_score) THEN GradeD
    ELSE GradeF

MaxSegments == 3

\* The pieces the scorer's input texts are put together from.
QualitySegments ==
    { T(<<"a", "b", "c">>),
      T(<<" ">>),
      Rep(" ", 3),
      Rep("a", 500),
      Rep("a", 50000),
      Rep("U4E00", 1000),
      Rep(".", 5),
      T(<<"!">>),
      Rep("\n", 6),
      T(<<"#">>),
      T(<<"1", ".">>),
      T(<<"U4E00", "U3001">>),
      T(<<"U7CFB", "U7EDF", "U6280", "U672F", "U67B6", "U6784",
          "U6A21", "U5757", "U529F", "U80FD">>) }

QualityInputs == {TCatAll(segs) : segs \in SeqsUpTo(QualitySegments, MaxSegments)}

QualityInit ==
    /\ q_text \in QualityInputs
    /\ q_metrics = NoResult
    /\ ai_analysis = NoResult /\ sync_input = NoResult
    /\ sync_first = NoResult /\ sync_calls = 0
    /\ v_analysis = NoResult /\ v_text = <<>> /\ v_result = NoResult
    /\ d_text = <<>> /\ d_filename = <<>> /\ d_structure = NoResult
    /\ u_url = <<>> /\ u_is_video = NoResult
    /\ p_content = NoResult /\ p_page_num = 0 /\ p_stats = NoResult /\ p_text = <<>> /\ p_result = NoResult
    /\ r_endpoint = "none" /\ r_request = NoResult /\ r_route = "none" /\ r_stage = "idle" /\ r_nested = FALSE /\ r_url = <<>> /\ r_fetch = NoResult /\ r_video_info = NoResult /\ r_content = <<>> /\ r_filename = <<>> /\ r_outcome = NoResult /\ r_analysis = NoResult /\ r_synchronized = NoResult /\ r_args = [synchronize |-> NoResult, validate |-> NoResult] /\ r_steps = <<>> /\ r_result = NoResult
    /\ f_raw = <<>> /\ f_text = <<>> /\ f_stage = "idle" /\ f_report = NoResult
    /\ l_base = <<>> /\ l_anchors = <<>> /\ l_max_pages = 0 /\ l_links = NoResult
    /\ h_url = <<>> /\ h_fetch = NoResult /\ h_info = NoResult /\ h_content = NoResult
    /\ i_text = <<>> /\ i_metrics = NoResult /\ i_once = NoResult /\ i_twice = NoResult
    /\ x_input = NoResult /\ x_hash_order = <<>> /\ x_runs = <<>>

AnalyzeQuality ==
    /\ q_metrics = NoResult
    /\ q_metrics' = AnalyzeContentQuality(q_text)
    /\ UNCHANGED q_text

QualityNext == AnalyzeQuality /\ UNCHANGED <<syncVars, valVars, docVars, urlVars, pdfVars, routeVars, fileVars, linkVars, handlerVars, improveVars, runVars>>

SpecQuality == QualityInit /\ [][QualityNext]_vars

InUnitInterval(x) == FLe(FZero, x) /\ FLe(x, FOne)

\* C4: for every string input, each of completeness_score, readability_score,
\* information_density, structure_integrity and overall_score returned by
\* analyze_content_quality lies in [0.0, 1.0].
C4_ScoresInUnitInterval ==
    q_metrics.returned =>
        /\ InUnitInterval(q_metrics.completeness_score)
        /\ InUnitInterval(q_metrics.readability_score)
        /\ InUnitInterval(q_metrics.information_density)
        /\ InUnitInterval(q_metrics.structure_integrity)
        /\ InUnitInterval(q_metrics.overall_score)

\* C4 witness: a text long enough and rich enough in sentence terminators
\* for both clamps of the completeness score to act has been scored.
C4_Witness ==
    /\ q_metrics.returned
    /\ TLen(q_text) > FullLengthChars
    /\ TCountIn(q_text, SentenceTerminators) > FullSentenceCount
    /\ q_metrics.completeness_score = FOne

Abc == T(<<"a", "b", "c">>)

\* C5 as stated: for "abc" the completeness score is about 0.006 (within
\* 0.001 of it) with sentence score 0, the overall score is near 0 (at most
\* 0.1), and the grade of the overall score is the lowest label.
C5_AbcNearZero ==
    (q_metrics.returned /\ q_text = Abc) =>
        /\ FLe(Frac(5, 1000), q_metrics.completeness_score)
        /\ FLe(q_metrics.completeness_score, Frac(7, 1000))
        /\ SentenceScore(q_text) = FZero
        /\ FLe(q_metrics.overall_score, Frac(1, 10))
        /\ GetQualityGrade(q_metrics.overall_score) = GradeF

\* C5 as amended: a text of at most 20 characters without sentence
\* terminators has sentence score 0, completeness score len/1000 (half its
\* length score) and the lowest grade; for "abc" the length score is 3/500,
\* the completeness score 0.003 and the overall score 10027/30000 (about
\* 0.334: 0.3 * 0.003 + 0.3 * readability 1 + 0.2 * structure 1/6).
C5_ShortTextLowestGrade ==
    (/\ q_metrics.returned
     /\ TLen(q_text) <= 20
     /\ TCountIn(q_text, SentenceTerminators) = 0) =>
        /\ SentenceScore(q_text) = FZero
        /\ q_metrics.completeness_score = Frac(TLen(q_text), 2 * FullLengthChars)
        /\ GetQualityGrade(q_metrics.overall_score) = GradeF
        /\ q_text = Abc =>
            /\ LengthScore(q_text) = Frac(3, 500)
            /\ q_metrics.completeness_score = Frac(3, 1000)
            /\ q_metrics.readability_score = FOne
            /\ q_metrics.structure_integrity = Frac(1, 6)
            /\ q_metrics.overall_score = Frac(10027, 30000)

\* C5 witness: "abc" has been scored.
C5_Witness == q_metrics.returned /\ q_text = Abc

-----------------------------------------------------------------------------
(* Extraction Validator: validate_extraction_accuracy *)

\* A list item that is not a str and is truthy (a number, say).
NonStr == <<"<non-str>">>
IsStr(x) == x # NonStr

LowerChar(c) ==
    IF c \in UpperChars
    THEN LowerLetters[CHOOSE i \in 1..Len(UpperLetters) : UpperLetters[i] = c]
    ELSE c

\* str.lower()
Lower(s) == [i \in 1..Len(s) |-> LowerChar(s[i])]

\* p in t
IsSubstr(p, t) == \E i \in 1..(Len(t) - Len(p) + 1) : SubSeq(t, i, i + Len(p) - 1) = p

\* str.split(): the maximal runs of non-whitespace characters
RECURSIVE SplitFrom(_, _, _)
SplitFrom(s, i, word) ==
    IF i > Len(s) THEN (IF word = <<>> THEN <<>> ELSE <<word>>)
    ELSE IF s[i] \in WhitespaceChars
         THEN (IF word = <<>> THEN <<>> ELSE <<word>>) \o SplitFrom(s, i + 1, <<>>)
         ELSE SplitFrom(s, i + 1, Append(word, s[i]))
Split(s) == SplitFrom(s, 1, <<>>)

\* isinstance(entity, str) and entity.lower() in text_content.lower()
EntityVerified(entity, text_content) ==
    IsStr(entity) /\ IsSubstr(Lower(entity), Lower(text_content))

\* isinstance(concept, str) and any(keyword in text_content.lower() ...)
ConceptVerified(concept, text_content) ==
    /\ IsStr(concept)
    /\ \E keyword \in Range(Split(Lower(concept))) : IsSubstr(keyword, Lower(text_content))

\* source.lower() / target.lower() on a truthy value that is no str raises.
RelationshipRaises(rel) == ~IsStr(rel.source) \/ ~IsStr(rel.target)

EndpointFound(name, text_content) ==
    IF name # <<>> THEN IsSubstr(Lower(name), Lower(text_content)) ELSE FALSE

RelationshipVerifiedEither(rel, text_content) ==
    EndpointFound(rel.source, text_content) \/ EndpointFound(rel.target, text_content)

\* source_found and target_found
RelationshipVerified(rel, text_content) ==
    EndpointFound(rel.source, text_content) /\ EndpointFound(rel.target, text_content)

\* verified / len(items) if items else 0.0
Accuracy(verified, total) == IF total > 0 THEN Frac(verified, total) ELSE FZero

RECURSIVE FSum(_)
FSum(scores) == IF scores = <<>> THEN FZero ELSE FAdd(Head(scores), FSum(Tail(scores)))

\* [score for score in accuracy_components if score > 0]
RECURSIVE NonZeroComponents(_)
NonZeroComponents(scores) ==
    IF scores = <<>> THEN <<>>
    ELSE (IF FLt(FZero, Head(scores)) THEN <<Head(scores)>> ELSE <<>>)
            \o NonZeroComponents(Tail(scores))

\* sum(non_zero_components) / len(non_zero_components) if non_zero_components else 0.0
OverallAccuracy(accuracy_components) ==
    LET non_zero_components == NonZeroComponents(accuracy_components)
    IN  IF non_zero_components # <<>>
        THEN FMul(FSum(non_zero_components), Frac(1, Len(non_zero_components)))
        ELSE FZero

\* validation_result as first built: nothing measured.
EmptyValidationResult ==
    [returned |-> TRUE, raised |-> FALSE, accuracy_score |-> FZero,
     validation_checks |-> <<>>, warnings |-> <<>>, recommendations |-> <<>>]

\* The body of the try block once both arguments are there, when no
\* statement of it raises.
ValidationBody(ai, text_content) ==
    LET entities == ai.entities
        concepts == ai.concepts
        relationships == ai.relationships
        verified_entities ==
            Cardinality({i \in 1..Len(entities) : EntityVerified(entities[i], text_content)})
        entity_accuracy == Accuracy(verified_entities, Len(entities))
        verified_concepts ==
            Cardinality({i \in 1..Len(concepts) : ConceptVerified(concepts[i], text_content)})
        concept_accuracy == Accuracy(verified_concepts, Len(concepts))
        verified_relationships ==
            Cardinality({i \in 1..Len(relationships) :
                            RelationshipVerified(relationships[i], text_content)})
        relationship_accuracy == Accuracy(verified_relationships, Len(relationships))
        overall_accuracy ==
            OverallAccuracy(<<entity_accuracy, concept_accuracy, relationship_accuracy>>)
    IN  [returned |-> TRUE, raised |-> FALSE,
         accuracy_score |-> overall_accuracy,
         validation_checks |->
            <<[entity_accuracy |-> entity_accuracy,
               concept_accuracy |-> concept_accuracy,
               relationship_accuracy |-> relationship_accuracy,
               verified_entities |-> verified_entities,
               total_entities |-> Len(entities),
               verified_concepts |-> verified_concepts,
               total_concepts |-> Len(concepts),
               verified_relationships |-> verified_relationships,
               total_relationships |-> Len(relationships)]>>,
         warnings |->
            (IF FLt(entity_accuracy, Frac(7, 10)) THEN <<"entity_accuracy_low">> ELSE <<>>)
            \o (IF FLt(concept_accuracy, Frac(6, 10)) THEN <<"concept_accuracy_low">> ELSE <<>>)
            \o (IF FLt(relationship_accuracy, Frac(5, 10))
                THEN <<"relationship_accuracy_low">> ELSE <<>>),
         recommendations |->
            IF FLe(Frac(8, 10), overall_accuracy) THEN <<"accuracy_good">>
            ELSE IF FLe(Frac(6, 10), overall_accuracy) THEN <<"accuracy_medium">>
            ELSE <<"accuracy_low">>]

\* The function with its except clause left out: the AttributeError escapes.
ValidateExtractionAccuracyNoExcept(ai, text_content) ==
    IF text_content = <<>>
    THEN [EmptyValidationResult EXCEPT !.warnings = <<"missing_data">>]
    ELSE IF \E i \in 1..Len(ai.relationships) : RelationshipRaises(ai.relationships[i])
    THEN [EmptyValidationResult EXCEPT !.raised = TRUE]
    ELSE ValidationBody(ai, text_content)

\* validation_checks is a sequence holding the dict once it is filled in, and
\* empty while it is {}.
ValidateExtractionAccuracy(ai, text_content) ==
    IF text_content = <<>>
    THEN [EmptyValidationResult EXCEPT !.warnings = <<"missing_data">>]
    ELSE IF \E i \in 1..Len(ai.relationships) : RelationshipRaises(ai.relationships[i])
    THEN [EmptyValidationResult EXCEPT !.warnings = <<"validation_error">>]
    ELSE ValidationBody(ai, text_content)

MaxValidatedEntities == 2
MaxValidatedConcepts == 1
MaxValidatedRelationships == 1

ValidatedEntityChoices == {<<>>, <<"X">>, <<"Z">>, NonStr}
ValidatedConceptChoices == {<<"X", " ", "q">>, <<"q">>}
ValidatedEndpointChoices == {<<>>, <<"X">>, <<"Y">>, NonStr}
ValidatedTextChoices == {<<>>, <<"X">>, <<"x", " ", "y">>}

ValidatedAnalysisInputs ==
    [content : {"doc"},
     entities : SeqsUpTo(ValidatedEntityChoices, MaxValidatedEntities),
     concepts : SeqsUpTo(ValidatedConceptChoices, MaxValidatedConcepts),
     relationships :
        SeqsUpTo([source : ValidatedEndpointChoices, target : ValidatedEndpointChoices,
                  type : {"x"}], MaxValidatedRelationships),
     confidence : {1}]

ValidationInit ==
    /\ v_analysis \in ValidatedAnalysisInputs
    /\ v_text \in ValidatedTextChoices
    /\ v_result = NoResult
    /\ ai_analysis = NoResult /\ sync_input = NoResult
    /\ sync_first = NoResult /\ sync_calls = 0
    /\ q_text = <<>> /\ q_metrics = NoResult
    /\ d_text = <<>> /\ d_filename = <<>> /\ d_structure = NoResult
    /\ u_url = <<>> /\ u_is_video = NoResult
    /\ p_content = NoResult /\ p_page_num = 0 /\ p_stats = NoResult /\ p_text = <<>> /\ p_result = NoResult
    /\ r_endpoint = "none" /\ r_request = NoResult /\ r_route = "none" /\ r_stage = "idle" /\ r_nested = FALSE /\ r_url = <<>> /\ r_fetch = NoResult /\ r_video_info = NoResult /\ r_content = <<>> /\ r_filename = <<>> /\ r_outcome = NoResult /\ r_analysis = NoResult /\ r_synchronized = NoResult /\ r_args = [synchronize |-> NoResult, validate |-> NoResult] /\ r_steps = <<>> /\ r_result = NoResult
    /\ f_raw = <<>> /\ f_text = <<>> /\ f_stage = "idle" /\ f_report = NoResult
    /\ l_base = <<>> /\ l_anchors = <<>> /\ l_max_pages = 0 /\ l_links = NoResult
    /\ h_url = <<>> /\ h_fetch = NoResult /\ h_info = NoResult /\ h_content = NoResult
    /\ i_text = <<>> /\ i_metrics = NoResult /\ i_once = NoResult /\ i_twice = NoResult
    /\ x_input = NoResult /\ x_hash_order = <<>> /\ x_runs = <<>>

Validate ==
    /\ v_result = NoResult
    /\ v_result' = ValidateExtractionAccuracy(v_analysis, v_text)
    /\ UNCHANGED <<v_analysis, v_text>>

ValidationNext == Validate /\ UNCHANGED <<syncVars, qualVars, docVars, urlVars, pdfVars, routeVars, fileVars, linkVars, handlerVars, improveVars, runVars>>

SpecValidation == ValidationInit /\ [][ValidationNext]_vars

\* The verification ratios of the categories that have at least one item.
MeasuredRatios(checks) ==
    (IF checks.total_entities > 0 THEN <<checks.entity_accuracy>> ELSE <<>>)
    \o (IF checks.total_concepts > 0 THEN <<checks.concept_accuracy>> ELSE <<>>)
    \o (IF checks.total_relationships > 0 THEN <<checks.relationship_accuracy>> ELSE <<>>)

\* C8: validate_extraction_accuracy never raises when any of the entities,
\* concepts or relationships lists is empty, and when all three are empty it
\* returns accuracy_score 0.0.
C8_EmptyListsNeverRaise ==
    v_result.returned =>
        /\ (\/ v_analysis.entities = <<>>
            \/ v_analysis.concepts = <<>>
            \/ v_analysis.relationships = <<>>) => ~v_result.raised
        /\ (/\ v_analysis.entities = <<>>
            /\ v_analysis.concepts = <<>>
            /\ v_analysis.relationships = <<>>) => v_result.accuracy_score = FZero

\* C8 witness: the validator has run its whole body on a non-empty text with
\* all three lists empty.
C8_Witness ==
    /\ v_result.returned
    /\ v_analysis.entities = <<>>
    /\ v_analysis.concepts = <<>>
    /\ v_analysis.relationships = <<>>
    /\ v_result.validation_checks # <<>>

\* C9: accuracy_score is the arithmetic mean of the verification ratios of
\* exactly the categories whose list has at least one item; a category with
\* items of which none is verified takes part in the mean with ratio 0.
C9_MeanOfMeasuredCategories ==
    (v_result.returned /\ v_result.validation_checks # <<>>) =>
        LET ratios == MeasuredRatios(v_result.validation_checks[1])
        IN  v_result.accuracy_score =
                IF ratios = <<>> THEN FZero
                ELSE FMul(FSum(ratios), Frac(1, Len(ratios)))

\* An endpoint occurs in the text: it is a str and, lowercased, a substring
\* of the lowercased text.
Occurs(name, text_content) == IsStr(name) /\ IsSubstr(Lower(name), Lower(text_content))

\* C10: a relationship counts as verified only if both its source and its
\* target occur case-insensitively in the text: verified_relationships never
\* exceeds the number of relationships with both endpoints occurring, counts
\* every relationship whose two non-empty endpoints occur, and
\* relationship_accuracy is that count over the number of relationships.
C10_BothEndpointsRequired ==
    (v_result.returned /\ v_result.validation_checks # <<>>) =>
        LET checks == v_result.validation_checks[1]
            rels == v_analysis.relationships
            both == {i \in 1..Len(rels) :
                        Occurs(rels[i].source, v_text) /\ Occurs(rels[i].target, v_text)}
            named == {i \in both : rels[i].source # <<>> /\ rels[i].target # <<>>}
        IN  /\ checks.verified_relationships <= Cardinality(both)
            /\ checks.verified_relationships >= Cardinality(named)
            /\ checks.total_relationships = Len(rels)
            /\ Len(rels) > 0 =>
                checks.relationship_accuracy = Frac(checks.verified_relationships, Len(rels))

\* C10 witness: a relationship whose source occurs in the text and whose
\* target does not has been counted as unverified.
C10_Witness ==
    /\ v_result.returned
    /\ v_result.validation_checks # <<>>
    /\ \E i \in 1..Len(v_analysis.relationships) :
            /\ v_analysis.relationships[i].source # <<>>
            /\ Occurs(v_analysis.relationships[i].source, v_text)
            /\ v_analysis.relationships[i].target # <<>>
            /\ ~Occurs(v_analysis.relationships[i].target, v_text)
    /\ v_result.validation_checks[1].verified_relationships = 0
    /\ v_result.validation_checks[1].relationship_accuracy = FZero

-----------------------------------------------------------------------------
(* Text: further str operations, used by the Document Structurer *)

\* text.strip()
RECURSIVE TLStrip(_)
TLStrip(t) ==
    IF t = <<>> THEN t
    ELSE IF Head(t).c \in WhitespaceChars THEN TLStrip(Tail(t)) ELSE t

RECURSIVE TRStrip(_)
TRStrip(t) ==
    IF t = <<>> THEN t
    ELSE IF t[Len(t)].c \in WhitespaceChars THEN TRStrip(SubSeq(t, 1, Len(t) - 1)) ELSE t

TStrip(t) == TRStrip(TLStrip(t))

\* text[k:]
RECURSIVE TDrop(_, _)
TDrop(t, k) ==
    IF t = <<>> \/ k <= 0 THEN t
    ELSE IF Head(t).n > k THEN <<[c |-> Head(t).c, n |-> Head(t).n - k]>> \o Tail(t)
    ELSE TDrop(Tail(t), k - Head(t).n)

\* text.startswith(p)
TStartsWith(t, p) ==
    \/ p = <<>>
    \/ /\ Len(t) >= Len(p)
       /\ \A j \in 1..(Len(p) - 1) : t[j] = p[j]
       /\ t[Len(p)].c = p[Len(p)].c
       /\ t[Len(p)].n >= p[Len(p)].n

\* text.endswith(p)
TEndsWith(t, p) ==
    \/ p = <<>>
    \/ /\ Len(t) >= Len(p)
       /\ \A j \in 2..Len(p) : t[Len(t) - Len(p) + j] = p[j]
       /\ t[Len(t) - Len(p) + 1].c = p[1].c
       /\ t[Len(t) - Len(p) + 1].n >= p[1].n

\* p in text
TContains(t, p) ==
    \/ p = <<>>
    \/ /\ Len(p) = 1
       /\ \E i \in 1..Len(t) : t[i].c = p[1].c /\ t[i].n >= p[1].n
    \/ /\ Len(p) >= 2
       /\ \E i \in 1..(Len(t) - Len(p) + 1) :
            /\ t[i].c = p[1].c /\ t[i].n >= p[1].n
            /\ \A j \in 2..(Len(p) - 1) : t[i + j - 1] = p[j]
            /\ t[i + Len(p) - 1].c = p[Len(p)].c
            /\ t[i + Len(p) - 1].n >= p[Len(p)].n

DigitChars == {"0", "1", "2", "3", "4", "5", "6", "7", "8", "9"}

\* text.lower()
TLower(t) ==
    MergeRuns([i \in 1..Len(t) |->
                  [c |-> IF t[i].c \in UpperChars
                         THEN LowerLetters[CHOOSE k \in 1..Len(UpperLetters) : UpperLetters[k] = t[i].c]
                         ELSE t[i].c,
                   n |-> t[i].n]])

\* The number of blocks, from block i on, whose character is of the class:
\* the length in blocks of the run a regular expression [class]+ consumes.
RECURSIVE RunBlocks(_, _, _)
RunBlocks(t, i, class) ==
    IF i > Len(t) \/ t[i].c \notin class THEN 0 ELSE 1 + RunBlocks(t, i + 1, class)

\* The number of characters in those blocks.
RunChars(t, i, class) ==
    SeqSum([j \in 1..RunBlocks(t, i, class) |-> t[i + j - 1].n])

\* text, with lines joined by "\n": the value of text_content for a
\* sequence of lines (text_content.split('\n') gives the lines back).
RECURSIVE JoinLines(_)
JoinLines(lines) ==
    IF Len(lines) = 0 THEN <<>>
    ELSE IF Len(lines) = 1 THEN lines[1]
    ELSE TCat(TCat(lines[1], Rep("\n", 1)), JoinLines(Tail(lines)))

-----------------------------------------------------------------------------
(* Document Structurer: generate_document_structure and the generic mode,   *)
(* generate_traditional_document_structure.  The summary and the statistics *)
(* of the returned structure are texts and counts derived from the sections *)
(* and are left out.                                                        *)

MinStructuredChars == 100
ShortLineChars == 100
DigitFreePrefix == 10
MaxNumberedLevel == 3
PreviewChars == 200

\* U+4E00 U+4E8C U+4E09 U+56DB U+4E94 U+516D U+4E03 U+516B U+4E5D U+5341
CJKNumerals ==
    {"U4E00", "U4E8C", "U4E09", "U56DB", "U4E94", "U516D", "U4E03", "U516B",
     "U4E5D", "U5341"}
\* U+3001, U+FF0E, '.'
ListSeparators == {"U3001", "UFF0E", "."}
\* U+7AE0 U+8282 U+7BC7 U+90E8 U+5206 U+6761 U+6B3E
ChapterUnits == {"U7AE0", "U8282", "U7BC7", "U90E8", "U5206", "U6761", "U6B3E"}

\* title_patterns, in order, each as re.match(pattern, line_stripped)
\* ^[CJK numerals]{1,3}[U+3001 U+FF0E .]
MatchesCJKNumeral(t) ==
    LET rb == RunBlocks(t, 1, CJKNumerals)
    IN  /\ rb >= 1
        /\ RunChars(t, 1, CJKNumerals) <= 3
        /\ rb + 1 <= Len(t)
        /\ t[rb + 1].c \in ListSeparators

\* ^U+7B2C[CJK numerals]+[chapter units][U+3001 U+FF0E .]
MatchesChapter(t) ==
    LET rb == RunBlocks(t, 2, CJKNumerals)
    IN  /\ Len(t) >= 1 /\ t[1].c = "U7B2C" /\ t[1].n = 1
        /\ rb >= 1
        /\ rb + 3 <= Len(t)
        /\ t[rb + 2].c \in ChapterUnits /\ t[rb + 2].n = 1
        /\ t[rb + 3].c \in ListSeparators

\* ^\d+[. U+FF0E U+3001]
MatchesNumbered(t) ==
    LET rb == RunBlocks(t, 1, DigitChars)
    IN  rb >= 1 /\ rb + 1 <= Len(t) /\ t[rb + 1].c \in ListSeparators

\* ^\(\d+\)
MatchesParenNumber(t) ==
    LET rb == RunBlocks(t, 2, DigitChars)
    IN  /\ Len(t) >= 1 /\ t[1].c = "(" /\ t[1].n = 1
        /\ rb >= 1 /\ rb + 2 <= Len(t) /\ t[rb + 2].c = ")"

\* ^[U+FF08 (][CJK numerals]+[U+FF09 )]
MatchesParenCJK(t) ==
    LET rb == RunBlocks(t, 2, CJKNumerals)
    IN  /\ Len(t) >= 1 /\ t[1].c \in {"UFF08", "("} /\ t[1].n = 1
        /\ rb >= 1 /\ rb + 2 <= Len(t) /\ t[rb + 2].c \in {"UFF09", ")"}

\* ^[A-Z]\.
MatchesLetter(t) ==
    Len(t) >= 2 /\ t[1].c \in UpperChars /\ t[1].n = 1 /\ t[2].c = "."

\* ^#+\s
MatchesMarkdown(t) ==
    Len(t) >= 2 /\ t[1].c = "#" /\ t[2].c \in WhitespaceChars

\* The short line that does not end a sentence, starts with an upper-case
\* letter and has no digit among its first 10 characters.
LooksLikeTitle(t) ==
    /\ TLen(t) < ShortLineChars
    /\ t[1].c \in UpperChars
    /\ t[Len(t)].c \notin SentenceTerminators
    /\ TCountIn(TTake(t, DigitFreePrefix), DigitChars) = 0

NotATitle == [is_title |-> FALSE, level |-> 0]

\* is_title and title_level of a non-empty stripped line, generic mode.
\* The pattern test alone, without the short-line heuristic.
TraditionalTitleByPattern(t) ==
    IF MatchesCJKNumeral(t) THEN [is_title |-> TRUE, level |-> 1]
    ELSE IF MatchesChapter(t)
         THEN [is_title |-> TRUE,
               level |-> IF TCount(t, "U7AE0") > 0 THEN 1
                         ELSE IF TCount(t, "U8282") > 0 THEN 2 ELSE 1]
    ELSE IF MatchesNumbered(t)
         THEN [is_title |-> TRUE, level |-> Min(TCount(t, ".") + 1, MaxNumberedLevel)]
    ELSE IF MatchesParenNumber(t) THEN [is_title |-> TRUE, level |-> 1]
    ELSE IF MatchesParenCJK(t) THEN [is_title |-> TRUE, level |-> 1]
    ELSE IF MatchesLetter(t) THEN [is_title |-> TRUE, level |-> 1]
    ELSE IF MatchesMarkdown(t) THEN [is_title |-> TRUE, level |-> t[1].n]
    ELSE NotATitle

TraditionalTitle(t) ==
    LET by_pattern == TraditionalTitleByPattern(t)
    IN  IF by_pattern.is_title THEN by_pattern
        ELSE IF LooksLikeTitle(t) THEN [is_title |-> TRUE, level |-> 3]
        ELSE NotATitle

\* content = line_stripped: the lines the section held before are dropped.
AppendLineReplacing(content, line_stripped) == line_stripped

\* content += "\n" + line_stripped, or line_stripped when content is empty
AppendLine(content, line_stripped) ==
    IF content # <<>> THEN TCat(TCat(content, Rep("\n", 1)), line_stripped)
    ELSE line_stripped

\* U+6587 U+6863 U+5F00 U+59CB
DocumentStartTitle == T(<<"U6587", "U6863", "U5F00", "U59CB">>)

\* The loop body with the saving of the previous section left out.
TraditionalStepNoClose(st, i, line) ==
    LET line_stripped == TStrip(line)
        cur == st.current_section
        title == TraditionalTitle(line_stripped)
    IN  IF line_stripped = <<>>
        THEN IF cur.content # <<>>
             THEN [st EXCEPT !.current_section.content = TCat(cur.content, Rep("\n", 1))]
             ELSE st
        ELSE IF title.is_title
        THEN [sections |-> st.sections,
              current_section |->
                 [title |-> line_stripped, content |-> <<>>, level |-> title.level,
                  line_start |-> i, section_id |-> Len(st.sections) + 1],
              directory |->
                 Append(st.directory,
                        [title |-> line_stripped, level |-> title.level,
                         section_id |-> Len(st.sections) + 1, line_number |-> i + 1])]
        ELSE [st EXCEPT !.current_section.content = AppendLine(cur.content, line_stripped)]

\* One iteration of the loop over enumerate(lines), generic mode; i counts
\* from 0.  st = [sections, directory, current_section].
TraditionalStep(st, i, line) ==
    LET line_stripped == TStrip(line)
        cur == st.current_section
        title == TraditionalTitle(line_stripped)
    IN  IF line_stripped = <<>>
        THEN IF cur.content # <<>>
             THEN [st EXCEPT !.current_section.content = TCat(cur.content, Rep("\n", 1))]
             ELSE st
        ELSE IF title.is_title
        THEN LET sections == IF TStrip(cur.content) # <<>>
                             THEN Append(st.sections, cur @@ [line_end |-> i - 1])
                             ELSE st.sections
             IN  [sections |-> sections,
                  current_section |->
                     [title |-> line_stripped, content |-> <<>>, level |-> title.level,
                      line_start |-> i, section_id |-> Len(sections) + 1],
                  directory |->
                     Append(st.directory,
                            [title |-> line_stripped, level |-> title.level,
                             section_id |-> Len(sections) + 1, line_number |-> i + 1])]
        ELSE [st EXCEPT !.current_section.content = AppendLine(cur.content, line_stripped)]

RECURSIVE TraditionalScan(_, _, _)
TraditionalScan(st, i, lines) ==
    IF i >= Len(lines) THEN st
    ELSE TraditionalScan(TraditionalStep(st, i, lines[i + 1]), i + 1, lines)

GenerateTraditionalDocumentStructure(lines, filename) ==
    LET scanned ==
            TraditionalScan(
                [sections |-> <<>>, directory |-> <<>>,
                 current_section |-> [title |-> DocumentStartTitle, content |-> <<>>,
                                      level |-> 0, line_start |-> 0]],
                0, lines)
        cur == scanned.current_section
        closed == IF TStrip(cur.content) # <<>>
                  THEN Append(scanned.sections, cur @@ [line_end |-> Len(lines) - 1])
                  ELSE scanned.sections
        sections == IF closed = <<>>
                    THEN <<[title |-> filename, content |-> TStrip(JoinLines(lines)),
                            level |-> 1, line_start |-> 0, line_end |-> Len(lines) - 1,
                            section_id |-> 1]>>
                    ELSE closed
        directory == IF closed = <<>>
                     THEN <<[title |-> filename, level |-> 1, section_id |-> 1,
                             line_number |-> 1]>>
                     ELSE scanned.directory
    IN  [returned |-> TRUE,
         directory |-> directory,
         sections |-> sections,
         structure_type |-> IF Len(sections) > 1 THEN "hierarchical" ELSE "single"]

-----------------------------------------------------------------------------
(* Document Structurer: repository mode, generate_github_document_structure *)

CodeConstructLineChars == 80
CodeTitleChars == 50
UnknownTypePriority == 10

FileMarkerPrefix == T(<<"=", "=", "=", " ">>)
FileMarkerSuffix == T(<<" ", "=", "=", "=">>)
TripleEquals == T(<<"=", "=", "=">>)
\* "GitHub" U+9879 U+76EE U+57FA U+672C U+4FE1 U+606F ":"
ProjectInfoLine == T(<<"G", "i", "t", "H", "u", "b", "U9879", "U76EE", "U57FA", "U672C",
            "U4FE1", "U606F", ":">>)
\* U+540D U+79F0 ":"
NamePrefix == T(<<"U540D", "U79F0", ":">>)
ReadmeLine == T(<<"R", "E", "A", "D", "M", "E", ":">>)
DescriptionPrefix == T(<<"D", "e", "s", "c", "r", "i", "p", "t", "i", "o", "n", ":">>)
FilesPrefix == T(<<"F", "i", "l", "e", "s", ":">>)
\* U+5B50 U+9875 U+9762 U+6807 U+9898 ":"
SubpageTitlePrefix == T(<<"U5B50", "U9875", "U9762", "U6807", "U9898", ":">>)
\* U+5B50 U+9875 U+9762 "URL:"
SubpageUrlPrefix == T(<<"U5B50", "U9875", "U9762", "U", "R", "L", ":">>)
\* U+91CD U+8981 U+6027 U+8BC4 U+5206 ":"
ImportancePrefix == T(<<"U91CD", "U8981", "U6027", "U8BC4", "U5206", ":">>)
\* "=== " U+9875 U+9762 U+5185 U+5BB9 " ==="
PageContentLine == T(<<"=", "=", "=", " ", "U9875", "U9762", "U5185", "U5BB9", " ", "=",
            "=", "=">>)

\* ('class ', 'def ', 'function ', 'const ', 'let ', 'var ')
CodeStarts ==
    { T(<<"c", "l", "a", "s", "s", " ">>),
      T(<<"d", "e", "f", " ">>),
      T(<<"f", "u", "n", "c", "t", "i", "o", "n", " ">>),
      T(<<"c", "o", "n", "s", "t", " ">>),
      T(<<"l", "e", "t", " ">>),
      T(<<"v", "a", "r", " ">>) }

\* ('import ', 'from ', 'require(', '#include')
ImportStarts ==
    { T(<<"i", "m", "p", "o", "r", "t", " ">>),
      T(<<"f", "r", "o", "m", " ">>),
      T(<<"r", "e", "q", "u", "i", "r", "e", "(">>),
      T(<<"#", "i", "n", "c", "l", "u", "d", "e">>) }

\* U+1F4C4 " "
CodeTitleMark == T(<<"U1F4C4", " ">>)
Ellipsis == T(<<".", ".", ".">>)

NoGithubTitle == [is_title |-> FALSE, level |-> 0, title_text |-> <<>>]

\* ^#{k} (.+)$
MatchesMarkdownHeader(t, k) ==
    TStartsWith(t, TCat(Rep("#", k), Rep(" ", 1))) /\ TLen(t) >= k + 2

\* github_patterns, in order: is_title, title_level and title_text of a
\* non-empty stripped line by the pattern list alone.
GithubTitleByPattern(t) ==
    IF TStartsWith(t, FileMarkerPrefix) /\ TEndsWith(t, FileMarkerSuffix) /\ TLen(t) >= 9
    THEN [is_title |-> TRUE, level |-> 1, title_text |-> TTake(TDrop(t, 4), TLen(t) - 8)]
    ELSE IF t = ProjectInfoLine THEN [is_title |-> TRUE, level |-> 1, title_text |-> t]
    ELSE IF TStartsWith(t, NamePrefix) THEN [is_title |-> TRUE, level |-> 2, title_text |-> t]
    ELSE IF t = ReadmeLine THEN [is_title |-> TRUE, level |-> 1, title_text |-> t]
    ELSE IF TStartsWith(t, DescriptionPrefix)
         THEN [is_title |-> TRUE, level |-> 2, title_text |-> t]
    ELSE IF TStartsWith(t, FilesPrefix) THEN [is_title |-> TRUE, level |-> 2, title_text |-> t]
    ELSE IF MatchesMarkdownHeader(t, 1)
         THEN [is_title |-> TRUE, level |-> 1, title_text |-> TDrop(t, 2)]
    ELSE IF MatchesMarkdownHeader(t, 2)
         THEN [is_title |-> TRUE, level |-> 2, title_text |-> TDrop(t, 3)]
    ELSE IF MatchesMarkdownHeader(t, 3)
         THEN [is_title |-> TRUE, level |-> 3, title_text |-> TDrop(t, 4)]
    ELSE IF TStartsWith(t, SubpageTitlePrefix)
         THEN [is_title |-> TRUE, level |-> 1, title_text |-> t]
    ELSE IF TStartsWith(t, SubpageUrlPrefix)
         THEN [is_title |-> TRUE, level |-> 2, title_text |-> t]
    ELSE IF TStartsWith(t, ImportancePrefix)
         THEN [is_title |-> TRUE, level |-> 2, title_text |-> t]
    ELSE IF t = PageContentLine THEN [is_title |-> TRUE, level |-> 1, title_text |-> t]
    ELSE NoGithubTitle

\* The code-structure test applied to a line inside a section whose title
\* holds "===".
IsCodeConstruct(t) ==
    \/ \E p \in CodeStarts : TStartsWith(t, p)
    \/ \E p \in ImportStarts : TStartsWith(t, p)
    \/ TEndsWith(t, Rep(":", 1)) /\ TLen(t) < CodeConstructLineChars

\* current is the open section as a sequence of zero or one record
\* (current_section is None or a dict).
GithubTitle(t, current) ==
    LET by_pattern == GithubTitleByPattern(t)
    IN  IF by_pattern.is_title THEN by_pattern
        ELSE IF /\ current # <<>>
                /\ TContains(current[1].title, TripleEquals)
                /\ IsCodeConstruct(t)
        THEN [is_title |-> TRUE, level |-> 3,
              title_text |->
                TCat(TCat(CodeTitleMark, TTake(t, CodeTitleChars)),
                     IF TLen(t) > CodeTitleChars THEN Ellipsis ELSE <<>>)]
        ELSE NoGithubTitle

\* ['.py', '.js', '.java', '.cpp', '.rs', '.go']
CodeExtensions ==
    { T(<<".", "p", "y">>),
      T(<<".", "j", "s">>),
      T(<<".", "j", "a", "v", "a">>),
      T(<<".", "c", "p", "p">>),
      T(<<".", "r", "s">>),
      T(<<".", "g", "o">>) }
\* ['.md', '.txt', '.rst']
DocExtensions ==
    { T(<<".", "m", "d">>),
      T(<<".", "t", "x", "t">>),
      T(<<".", "r", "s", "t">>) }
\* ['package.json', 'requirements.txt', 'cargo.toml', 'pom.xml']
ConfigNames ==
    { T(<<"p", "a", "c", "k", "a", "g", "e", ".", "j", "s", "o", "n">>),
      T(<<"r", "e", "q", "u", "i", "r", "e", "m", "e", "n", "t", "s", ".", "t",
          "x", "t">>),
      T(<<"c", "a", "r", "g", "o", ".", "t", "o", "m", "l">>),
      T(<<"p", "o", "m", ".", "x", "m", "l">>) }
\* "github" U+9879 U+76EE, U+9879 U+76EE U+4FE1 U+606F
ProjectInfoKeywords ==
    { T(<<"g", "i", "t", "h", "u", "b", "U9879", "U76EE">>),
      T(<<"U9879", "U76EE", "U4FE1", "U606F">>) }
ReadmeKeyword == T(<<"r", "e", "a", "d", "m", "e">>)
\* 'description', U+63CF U+8FF0, 'files', U+6587 U+4EF6
MetadataKeywords ==
    { T(<<"d", "e", "s", "c", "r", "i", "p", "t", "i", "o", "n">>),
      T(<<"U63CF", "U8FF0">>),
      T(<<"f", "i", "l", "e", "s">>),
      T(<<"U6587", "U4EF6">>) }
\* U+5B50 U+9875 U+9762, 'subpage'
SubpageKeywords ==
    { T(<<"U5B50", "U9875", "U9762">>),
      T(<<"s", "u", "b", "p", "a", "g", "e">>) }

\* classify_github_section
ClassifyGithubSection(title_text) ==
    LET title_lower == TLower(title_text)
        has_marker == TContains(title_text, TripleEquals)
    IN  IF has_marker /\ \E ext \in CodeExtensions : TContains(title_lower, ext)
        THEN "code"
        ELSE IF has_marker /\ \E ext \in DocExtensions : TContains(title_lower, ext)
        THEN "documentation"
        ELSE IF has_marker /\ \E name \in ConfigNames : TContains(title_lower, name)
        THEN "config"
        ELSE IF \E k \in ProjectInfoKeywords : TContains(title_lower, k)
        THEN "project_info"
        ELSE IF TContains(title_lower, ReadmeKeyword) THEN "readme"
        ELSE IF \E k \in MetadataKeywords : TContains(title_lower, k) THEN "metadata"
        ELSE IF TStartsWith(title_text, Rep("#", 1)) THEN "markdown_header"
        ELSE IF \E k \in SubpageKeywords : TContains(title_lower, k) THEN "subpage"
        ELSE "general"

\* type_priority.get(section_type, 10)
TypePriority(section_type) ==
    CASE section_type = "project_info" -> 1
      [] section_type = "readme" -> 2
      [] section_type = "metadata" -> 3
      [] section_type = "documentation" -> 4
      [] section_type = "config" -> 5
      [] section_type = "code" -> 6
      [] section_type = "subpage" -> 7
      [] section_type = "markdown_header" -> 8
      [] section_type = "general" -> 9
      [] OTHER -> UnknownTypePriority

\* sorted(items, key=...) for keys <<priority, position>>, one per item:
\* ascending by key, items of equal key in their given order.
SortedByKeys(items, keys) ==
    LET Before(i, j) ==
            \/ keys[i][1] < keys[j][1]
            \/ keys[i][1] = keys[j][1] /\ keys[i][2] < keys[j][2]
            \/ keys[i] = keys[j] /\ i < j
        Rank(i) == Cardinality({j \in 1..Len(items) : Before(j, i)})
    IN  [r \in 1..Len(items) |-> items[CHOOSE i \in 1..Len(items) : Rank(i) = r - 1]]

\* organize_github_sections with the two sort keys exchanged.
OrganizeGithubSectionsByLine(sections) ==
    LET marked == [i \in 1..Len(sections) |->
                    sections[i] @@ [sort_priority |-> TypePriority(sections[i].section_type)]]
    IN  SortedByKeys(marked,
            [i \in 1..Len(marked) |-> <<marked[i].line_start, marked[i].sort_priority>>])

\* organize_github_sections
OrganizeGithubSections(sections) ==
    LET marked == [i \in 1..Len(sections) |->
                    sections[i] @@ [sort_priority |-> TypePriority(sections[i].section_type)]]
    IN  SortedByKeys(marked,
            [i \in 1..Len(marked) |-> <<marked[i].sort_priority, marked[i].line_start>>])

\* organize_github_directory
OrganizeGithubDirectory(directory) ==
    LET marked == [i \in 1..Len(directory) |->
                    directory[i] @@ [sort_priority |-> TypePriority(directory[i].section_type)]]
    IN  SortedByKeys(marked,
            [i \in 1..Len(marked) |-> <<marked[i].sort_priority, marked[i].line_number>>])

\* content[:200] + "..." if len(content) > 200 else content
ContentPreview(content) ==
    IF TLen(content) > PreviewChars THEN TCat(TTake(content, PreviewChars), Ellipsis)
    ELSE content

\* current_section with line_end and content_preview set, as appended.
ClosedGithubSection(cur, line_end) ==
    cur @@ [line_end |-> line_end, content_preview |-> ContentPreview(cur.content)]

\* U+9879 U+76EE U+6982 U+89C8
OverviewTitle == T(<<"U9879", "U76EE", "U6982", "U89C8">>)
\* "GitHub" U+4ED3 U+5E93 U+5185 U+5BB9
RepositoryTitle == T(<<"G", "i", "t", "H", "u", "b", "U4ED3", "U5E93", "U5185", "U5BB9">>)

\* One iteration of the loop over enumerate(lines), repository mode.
\* st = [sections, directory, current_section], current_section a sequence
\* of zero or one record.
GithubStep(st, i, line) ==
    LET line_stripped == TStrip(line)
        current == st.current_section
        title == GithubTitle(line_stripped, current)
    IN  IF line_stripped = <<>>
        THEN IF current # <<>> /\ current[1].content # <<>>
             THEN [st EXCEPT !.current_section[1].content =
                                TCat(current[1].content, Rep("\n", 1))]
             ELSE st
        ELSE IF title.is_title
        THEN LET sections ==
                    IF current # <<>> /\ TStrip(current[1].content) # <<>>
                    THEN Append(st.sections, ClosedGithubSection(current[1], i - 1))
                    ELSE st.sections
                 section_type == ClassifyGithubSection(title.title_text)
             IN  [sections |-> sections,
                  current_section |->
                     <<[title |-> title.title_text, content |-> <<>>,
                        level |-> title.level, line_start |-> i,
                        section_id |-> Len(sections) + 1,
                        section_type |-> section_type]>>,
                  directory |->
                     Append(st.directory,
                            [title |-> title.title_text, level |-> title.level,
                             section_id |-> Len(sections) + 1, line_number |-> i + 1,
                             section_type |-> section_type])]
        ELSE LET opened ==
                    IF current = <<>>
                    THEN [title |-> OverviewTitle, content |-> <<>>, level |-> 1,
                          line_start |-> i, section_id |-> 1, section_type |-> "overview"]
                    ELSE current[1]
             IN  [st EXCEPT !.current_section =
                    <<[opened EXCEPT !.content = AppendLine(opened.content, line_stripped)]>>]

RECURSIVE GithubScan(_, _, _)
GithubScan(st, i, lines) ==
    IF i >= Len(lines) THEN st
    ELSE GithubScan(GithubStep(st, i, lines[i + 1]), i + 1, lines)

GenerateGithubDocumentStructure(lines, filename) ==
    LET scanned ==
            GithubScan([sections |-> <<>>, directory |-> <<>>, current_section |-> <<>>],
                       0, lines)
        current == scanned.current_section
        closed == IF current # <<>> /\ TStrip(current[1].content) # <<>>
                  THEN Append(scanned.sections,
                              ClosedGithubSection(current[1], Len(lines) - 1))
                  ELSE scanned.sections
        sections == IF closed = <<>>
                    THEN <<[title |-> RepositoryTitle, content |-> TStrip(JoinLines(lines)),
                            level |-> 1, line_start |-> 0, line_end |-> Len(lines) - 1,
                            section_id |-> 1, section_type |-> "repository"]>>
                    ELSE closed
        directory == IF closed = <<>>
                     THEN <<[title |-> RepositoryTitle, level |-> 1, section_id |-> 1,
                             line_number |-> 1, section_type |-> "repository"]>>
                     ELSE scanned.directory
    IN  [returned |-> TRUE,
         directory |-> OrganizeGithubDirectory(directory),
         sections |-> OrganizeGithubSections(sections),
         structure_type |-> "github_repository"]

ScrapedGithubMark == T(<<"s", "c", "r", "a", "p", "e", "d", "_", "g", "i", "t", "h", "u", "b">>)
\* "GitHub" U+9879 U+76EE
GithubProjectMark == T(<<"G", "i", "t", "H", "u", "b", "U9879", "U76EE">>)

\* is_github_content
IsGithubContent(text_content, filename) ==
    \/ TContains(filename, ScrapedGithubMark)
    \/ TContains(text_content, FileMarkerPrefix)
    \/ TContains(text_content, GithubProjectMark)
    \/ TContains(text_content, ReadmeLine)

\* generate_document_structure, for text_content given by its lines.  The
\* except branch (structure_type "error") is not modelled: no statement of
\* either mode raises on str arguments.
GenerateDocumentStructure(lines, filename) ==
    LET text_content == JoinLines(lines)
    IN  IF text_content = <<>> \/ TLen(text_content) < MinStructuredChars
        THEN [returned |-> TRUE, directory |-> <<>>, sections |-> <<>>,
              structure_type |-> "empty"]
        ELSE IF IsGithubContent(text_content, filename)
        THEN GenerateGithubDocumentStructure(lines, filename)
        ELSE GenerateTraditionalDocumentStructure(lines, filename)

MaxLines == 3
MaxHeadings == 3

\* A line of content of 101 characters that is no heading in either mode.
LongContentLine == TCat(Rep("x", 100), Rep(".", 1))
ShortContentLine == T(<<"o", "k", ".">>)
TitleLikeLine == T(<<"T", "i", "t", "l", "e">>)

\* The k-th numbered heading: "1. Intro", "2. Body", "3. Conclusion", "4. Part", ...
NumberedHeading(k) ==
    TCat(T(<<(<<"1", "2", "3", "4", "5", "6", "7", "8", "9">>)[k], ".", " ">>),
         IF k = 1 THEN T(<<"I", "n", "t", "r", "o">>)
         ELSE IF k = 2 THEN T(<<"B", "o", "d", "y">>)
         ELSE IF k = 3 THEN T(<<"C", "o", "n", "c", "l", "u", "s", "i", "o", "n">>)
         ELSE T(<<"P", "a", "r", "t">>))

\* The lines the structurer's free-form input documents are made of.
DocumentLineChoices ==
    { <<>>,
      LongContentLine,
      ShortContentLine,
      TitleLikeLine,
      NumberedHeading(1),
      T(<<"#", " ", "T">>),
      T(<<"=", "=", "=", " ", "a", ".", "p", "y", " ", "=", "=", "=">>),
      T(<<"=", "=", "=", " ", "=", "=", "=", "=", " ", "=", "=", "=">>),
      T(<<"d", "e", "f", " ", "f", "(", ")", ":">>),
      ReadmeLine }

\* The content lines of the numbered documents.
ContentLineChoices == {LongContentLine, ShortContentLine, TitleLikeLine}

\* n numbered headings, each followed by one line of content.
NumberedDocument(n, contents) ==
    [i \in 1..(2 * n) |-> IF i % 2 = 1 THEN NumberedHeading((i + 1) \div 2)
                          ELSE contents[i \div 2]]

DocumentInputs ==
    (UNION {[1..m -> DocumentLineChoices] : m \in 1..MaxLines})
    \cup {NumberedDocument(n, contents) :
            n \in 1..MaxHeadings, contents \in [1..MaxHeadings -> ContentLineChoices]}

FilenameChoices == {T(<<"f", ".", "t", "x", "t">>), T(<<"s", "c", "r", "a", "p", "e", "d", "_", "g", "i", "t", "h", "u", "b">>)}

StructureInit ==
    /\ d_text \in DocumentInputs
    /\ d_filename \in FilenameChoices
    /\ d_structure = NoResult
    /\ ai_analysis = NoResult /\ sync_input = NoResult
    /\ sync_first = NoResult /\ sync_calls = 0
    /\ q_text = <<>> /\ q_metrics = NoResult
    /\ v_analysis = NoResult /\ v_text = <<>> /\ v_result = NoResult
    /\ u_url = <<>> /\ u_is_video = NoResult
    /\ p_content = NoResult /\ p_page_num = 0 /\ p_stats = NoResult /\ p_text = <<>> /\ p_result = NoResult
    /\ r_endpoint = "none" /\ r_request = NoResult /\ r_route = "none" /\ r_stage = "idle" /\ r_nested = FALSE /\ r_url = <<>> /\ r_fetch = NoResult /\ r_video_info = NoResult /\ r_content = <<>> /\ r_filename = <<>> /\ r_outcome = NoResult /\ r_analysis = NoResult /\ r_synchronized = NoResult /\ r_args = [synchronize |-> NoResult, validate |-> NoResult] /\ r_steps = <<>> /\ r_result = NoResult
    /\ f_raw = <<>> /\ f_text = <<>> /\ f_stage = "idle" /\ f_report = NoResult
    /\ l_base = <<>> /\ l_anchors = <<>> /\ l_max_pages = 0 /\ l_links = NoResult
    /\ h_url = <<>> /\ h_fetch = NoResult /\ h_info = NoResult /\ h_content = NoResult
    /\ i_text = <<>> /\ i_metrics = NoResult /\ i_once = NoResult /\ i_twice = NoResult
    /\ x_input = NoResult /\ x_hash_order = <<>> /\ x_runs = <<>>

Structure ==
    /\ d_structure = NoResult
    /\ d_structure' = GenerateDocumentStructure(d_text, d_filename)
    /\ UNCHANGED <<d_text, d_filename>>

StructureNext == Structure /\ UNCHANGED <<syncVars, qualVars, valVars, urlVars, pdfVars, routeVars, fileVars, linkVars, handlerVars, improveVars, runVars>>

SpecStructure == StructureInit /\ [][StructureNext]_vars

\* The section_id values the items of a list carry.
SectionIds(items) ==
    {items[i].section_id : i \in {j \in 1..Len(items) : "section_id" \in DOMAIN items[j]}}

\* C6: for every text input, generate_document_structure returns at least
\* one section, and the section_id values of its directory entries are
\* exactly the section_id values of its sections.
C6_SectionsMatchDirectory ==
    d_structure.returned =>
        /\ Len(d_structure.sections) >= 1
        /\ SectionIds(d_structure.directory) = SectionIds(d_structure.sections)

\* C17: in both structurer modes every detected heading gets a directory
\* entry whose section_id is strictly greater than the section_id given to
\* every earlier heading, consecutive headings and a heading at the end of
\* the input included: of two directory entries, the one of the later line
\* has the greater section_id, so no two entries share a section_id.
C17_HeadingIdsIncrease ==
    d_structure.returned =>
        \A i, j \in 1..Len(d_structure.directory) :
            d_structure.directory[i].line_number < d_structure.directory[j].line_number
                => d_structure.directory[i].section_id < d_structure.directory[j].section_id

\* The line is a file-boundary marker "=== name ===".
IsFileMarker(t) ==
    TStartsWith(t, FileMarkerPrefix) /\ TEndsWith(t, FileMarkerSuffix) /\ TLen(t) >= 9

\* The line starts with a code construct (class, def, function, import, ...).
StartsWithCodeConstruct(t) == \E p \in CodeStarts \cup ImportStarts : TStartsWith(t, p)

\* C18: in repository mode, a non-blank line that starts with a code
\* construct and follows a file-boundary marker line "=== name ===" is
\* detected as a heading: it has a directory entry of level 3.
C18_CodeConstructAfterFileMarker ==
    (d_structure.returned /\ d_structure.structure_type = "github_repository") =>
        \A p \in 1..(Len(d_text) - 1) :
            (IsFileMarker(TStrip(d_text[p])) /\ StartsWithCodeConstruct(TStrip(d_text[p + 1]))) =>
                \E k \in 1..Len(d_structure.directory) :
                    /\ d_structure.directory[k].line_number = p + 1
                    /\ d_structure.directory[k].level = 3

\* The items are in ascending order of their keys, a key being a pair
\* compared first component first.
InKeyOrder(keys) ==
    \A i \in 1..(Len(keys) - 1) :
        \/ keys[i][1] < keys[i + 1][1]
        \/ keys[i][1] = keys[i + 1][1] /\ keys[i][2] <= keys[i + 1][2]

\* C19 as stated: in repository mode the sections and the directory
\* returned are in original line order, the category priority being the
\* secondary sort key only.
C19_LineOrderThenPriority ==
    (d_structure.returned /\ d_structure.structure_type = "github_repository") =>
        /\ InKeyOrder([i \in 1..Len(d_structure.sections) |->
                <<d_structure.sections[i].line_start,
                  TypePriority(d_structure.sections[i].section_type)>>])
        /\ InKeyOrder([i \in 1..Len(d_structure.directory) |->
                <<d_structure.directory[i].line_number,
                  TypePriority(d_structure.directory[i].section_type)>>])

\* C19 as amended: in repository mode the sections and the directory
\* returned are in ascending order of category priority (project-info,
\* readme, metadata, documentation, config, code, sub-page content, markdown
\* header, general, then any other type), and within one category in
\* original line order.
C19_PriorityThenLineOrder ==
    (d_structure.returned /\ d_structure.structure_type = "github_repository") =>
        /\ InKeyOrder([i \in 1..Len(d_structure.sections) |->
                <<TypePriority(d_structure.sections[i].section_type),
                  d_structure.sections[i].line_start>>])
        /\ InKeyOrder([i \in 1..Len(d_structure.directory) |->
                <<TypePriority(d_structure.directory[i].section_type),
                  d_structure.directory[i].line_number>>])

\* C19 witness: a repository-mode result whose first section starts on a
\* later line than its second: the priority has moved it forward.
C19_Witness ==
    /\ d_structure.returned
    /\ d_structure.structure_type = "github_repository"
    /\ Len(d_structure.sections) >= 2
    /\ d_structure.sections[1].line_start > d_structure.sections[2].line_start

\* The lines are n numbered headings, the k-th followed by one non-blank line.
IsNumberedDocument(lines, n) ==
    /\ Len(lines) = 2 * n
    /\ \A k \in 1..n :
        /\ lines[2 * k - 1] = NumberedHeading(k)
        /\ TStrip(lines[2 * k]) # <<>>

\* The result has n sections and n directory entries, in heading order,
\* titled by the heading lines.
HasNumberedSections(structure, n) ==
    /\ Len(structure.sections) = n
    /\ Len(structure.directory) = n
    /\ \A k \in 1..n :
        /\ structure.sections[k].title = NumberedHeading(k)
        /\ structure.directory[k].title = NumberedHeading(k)

-----------------------------------------------------------------------------
(* Graph Data Synchronizer: synchronize_graph_data *)

\* all_nodes: the stripped, non-empty entity and concept names.
AllNodesConceptsOnly(entities, concepts) ==
    {Strip(c) : c \in {x \in Range(concepts) : x # <<>> /\ Strip(x) # <<>>}}

AllNodes(entities, concepts) ==
    {Strip(e) : e \in {x \in Range(entities) : x # <<>> /\ Strip(x) # <<>>}}
    \cup {Strip(c) : c \in {x \in Range(concepts) : x # <<>> /\ Strip(x) # <<>>}}

\* missing_nodes: the stripped, non-empty endpoints that all_nodes lacks.
MissingNodesSourceOnly(relationships, all_nodes) ==
    {Strip(r.source) : r \in {x \in Range(relationships) :
        Strip(x.source) # <<>> /\ Strip(x.source) \notin all_nodes}}

MissingNodes(relationships, all_nodes) ==
    {Strip(r.source) : r \in {x \in Range(relationships) :
        Strip(x.source) # <<>> /\ Strip(x.source) \notin all_nodes}}
    \cup {Strip(r.target) : r \in {x \in Range(relationships) :
        Strip(x.target) # <<>> /\ Strip(x.target) \notin all_nodes}}

\* The results synchronize_graph_data can return for x: list(missing_nodes)
\* lists a set of str, whose order the interpreter's string hashing decides.
SynchronizeGraphDataPrepend(x) ==
    LET all_nodes == AllNodes(x.entities, x.concepts)
        missing_nodes == MissingNodes(x.relationships, all_nodes)
    IN  IF missing_nodes # {}
        THEN {[x EXCEPT !.entities = order \o x.entities] : order \in Orderings(missing_nodes)}
        ELSE {x}

SynchronizeGraphData(x) ==
    LET all_nodes == AllNodes(x.entities, x.concepts)
        missing_nodes == MissingNodes(x.relationships, all_nodes)
    IN  IF missing_nodes # {}
        THEN {[x EXCEPT !.entities = x.entities \o order] : order \in Orderings(missing_nodes)}
        ELSE {x}

MaxEntities == 1
MaxConcepts == 1
MaxRelationships == 1

\* Names the analyzer may hand over: empty, padded with whitespace, plain.
NameChoices == {<<>>, <<"A">>, <<" ", "A">>, <<"B", " ">>}

RelationshipChoices ==
    [source : NameChoices, target : NameChoices, type : {"x"}]

AnalysisInputs ==
    [content : {"doc"},
     entities : SeqsUpTo(NameChoices, MaxEntities),
     concepts : SeqsUpTo(NameChoices, MaxConcepts),
     relationships : SeqsUpTo(RelationshipChoices, MaxRelationships),
     confidence : {1}]

\* The synchronizer is applied to its own output at most this many times.
MaxSyncCalls == 2

\* The synchronizer is handed an analysis result; the other components rest.
SyncInit ==
    /\ ai_analysis \in AnalysisInputs
    /\ sync_input = ai_analysis
    /\ sync_first = ai_analysis
    /\ sync_calls = 0
    /\ q_text = <<>> /\ q_metrics = NoResult
    /\ v_analysis = NoResult /\ v_text = <<>> /\ v_result = NoResult
    /\ d_text = <<>> /\ d_filename = <<>> /\ d_structure = NoResult
    /\ u_url = <<>> /\ u_is_video = NoResult
    /\ p_content = NoResult /\ p_page_num = 0 /\ p_stats = NoResult /\ p_text = <<>> /\ p_result = NoResult
    /\ r_endpoint = "none" /\ r_request = NoResult /\ r_route = "none" /\ r_stage = "idle" /\ r_nested = FALSE /\ r_url = <<>> /\ r_fetch = NoResult /\ r_video_info = NoResult /\ r_content = <<>> /\ r_filename = <<>> /\ r_outcome = NoResult /\ r_analysis = NoResult /\ r_synchronized = NoResult /\ r_args = [synchronize |-> NoResult, validate |-> NoResult] /\ r_steps = <<>> /\ r_result = NoResult
    /\ f_raw = <<>> /\ f_text = <<>> /\ f_stage = "idle" /\ f_report = NoResult
    /\ l_base = <<>> /\ l_anchors = <<>> /\ l_max_pages = 0 /\ l_links = NoResult
    /\ h_url = <<>> /\ h_fetch = NoResult /\ h_info = NoResult /\ h_content = NoResult
    /\ i_text = <<>> /\ i_metrics = NoResult /\ i_once = NoResult /\ i_twice = NoResult
    /\ x_input = NoResult /\ x_hash_order = <<>> /\ x_runs = <<>>

Synchronize ==
    /\ sync_calls < MaxSyncCalls
    /\ sync_input' = ai_analysis
    /\ ai_analysis' \in SynchronizeGraphData(ai_analysis)
    /\ sync_calls' = sync_calls + 1
    /\ UNCHANGED sync_first

SyncNext == Synchronize /\ UNCHANGED <<qualVars, valVars, docVars, urlVars, pdfVars, routeVars, fileVars, linkVars, handlerVars, improveVars, runVars>>

SpecSync == SyncInit /\ [][SyncNext]_vars

\* The names a list holds, stripped of surrounding whitespace.
StrippedNames(names) == {Strip(n) : n \in Range(names)}

\* The endpoints of a relationship list, as written.
Endpoints(relationships) ==
    {r.source : r \in Range(relationships)} \cup {r.target : r \in Range(relationships)}

\* C1 as stated: after synchronize_graph_data, the source and the target of
\* every relationship are members of the output's entities list.
C1_EndpointsInEntities ==
    sync_calls >= 1 =>
        \A r \in Range(ai_analysis.relationships) :
            /\ r.source \in Range(ai_analysis.entities)
            /\ r.target \in Range(ai_analysis.entities)

\* C1 as amended: after synchronize_graph_data, every relationship endpoint
\* that is non-empty once stripped equals, stripped, the stripped form of a
\* member of the output's entities list or of its concepts list.
C1_EndpointsInEntitiesOrConcepts ==
    sync_calls >= 1 =>
        \A e \in Endpoints(ai_analysis.relationships) :
            Strip(e) # <<>> =>
                Strip(e) \in StrippedNames(ai_analysis.entities)
                              \cup StrippedNames(ai_analysis.concepts)

\* C1 witness: one call has appended a missing endpoint while another
\* endpoint of the same result is known only as a concept.
C1_Witness ==
    /\ sync_calls = 1
    /\ Len(ai_analysis.entities) > Len(sync_first.entities)
    /\ \E e \in Endpoints(ai_analysis.relationships) :
            /\ Strip(e) \in StrippedNames(ai_analysis.concepts)
            /\ Strip(e) \notin StrippedNames(ai_analysis.entities)

\* C2: synchronize_graph_data is idempotent: applied to its own output it
\* returns that output unchanged (entities in the same order, same concepts,
\* same relationships, same other fields).
C2_Idempotent ==
    sync_calls >= 2 => ai_analysis = sync_input

\* C2 witness: the second call has returned after a first call that appended
\* two missing endpoints.
C2_Witness ==
    /\ sync_calls = 2
    /\ Len(sync_input.entities) >= Len(sync_first.entities) + 2

\* C3 as stated: the output entities are the input entities followed by each
\* relationship endpoint absent from entities and concepts, exactly once;
\* every other field is unchanged.
C3_AppendsAbsentEndpoints ==
    sync_calls = 1 =>
        LET absent == Endpoints(sync_first.relationships)
                        \ (Range(sync_first.entities) \cup Range(sync_first.concepts))
        IN  /\ \E order \in Orderings(absent) :
                    ai_analysis.entities = sync_first.entities \o order
            /\ ai_analysis = [sync_first EXCEPT !.entities = ai_analysis.entities]

\* C3 as amended: the output entities are the input entities, unchanged and
\* in order, followed by exactly once each stripped non-empty endpoint whose
\* stripped form is the stripped form of no input entity or concept; every
\* other field, the relationships included, is unchanged.
C3_AppendsStrippedAbsentEndpoints ==
    sync_calls = 1 =>
        LET known == StrippedNames(sync_first.entities)
                        \cup StrippedNames(sync_first.concepts)
            absent == ({Strip(e) : e \in Endpoints(sync_first.relationships)}
                        \ known) \ {<<>>}
        IN  /\ \E order \in Orderings(absent) :
                    ai_analysis.entities = sync_first.entities \o order
            /\ ai_analysis = [sync_first EXCEPT !.entities = ai_analysis.entities]

\* C3 witness: one call on a non-empty entities list has appended to it.
C3_Witness ==
    /\ sync_calls = 1
    /\ sync_first.entities # <<>>
    /\ Len(ai_analysis.entities) > Len(sync_first.entities)

-----------------------------------------------------------------------------
(* Source Resolver: is_video_url *)

\* video_platforms
VideoPlatforms ==
    <<<<"y", "o", "u", "t", "u", "b", "e", ".", "c", "o", "m">>,
      <<"y", "o", "u", "t", "u", ".", "b", "e">>,
      <<"b", "i", "l", "i", "b", "i", "l", "i", ".", "c", "o", "m">>,
      <<"b", "2", "3", ".", "t", "v">>,
      <<"v", "i", "m", "e", "o", ".", "c", "o", "m">>,
      <<"d", "a", "i", "l", "y", "m", "o", "t", "i", "o", "n", ".", "c", "o", "m">>,
      <<"t", "w", "i", "t", "c", "h", ".", "t", "v">>,
      <<"t", "i", "k", "t", "o", "k", ".", "c", "o", "m">>,
      <<"i", "n", "s", "t", "a", "g", "r", "a", "m", ".", "c", "o", "m", "/", "p", "/">>,
      <<"t", "w", "i", "t", "t", "e", "r", ".", "c", "o", "m">>,
      <<"x", ".", "c", "o", "m">>>>

\* video_extensions
VideoExtensions ==
    <<<<".", "m", "p", "4">>,
      <<".", "a", "v", "i">>,
      <<".", "m", "k", "v">>,
      <<".", "m", "o", "v">>,
      <<".", "w", "m", "v">>,
      <<".", "f", "l", "v">>,
      <<".", "w", "e", "b", "m">>,
      <<".", "m", "4", "v">>>>

\* s.endswith(suffix)
EndsWith(s, suffix) ==
    /\ Len(s) >= Len(suffix)
    /\ SubSeq(s, Len(s) - Len(suffix) + 1, Len(s)) = suffix

\* s.startswith(prefix)
StartsWith(s, prefix) ==
    /\ Len(s) >= Len(prefix)
    /\ SubSeq(s, 1, Len(prefix)) = prefix

\* is_video_url(url): a platform string anywhere in the url, or the lowered
\* url ending with a video extension.
IsVideoUrl(url) ==
    \/ \E i \in 1..Len(VideoPlatforms) : IsSubstr(VideoPlatforms[i], url)
    \/ \E i \in 1..Len(VideoExtensions) : EndsWith(Lower(url), VideoExtensions[i])

\* The urls submitted: scheme, host, path and query put together.
UrlScheme == <<"h", "t", "t", "p", "s", ":", "/", "/">>
UrlHostChoices ==
    {<<"w", "w", "w", ".", "y", "o", "u", "t", "u", "b", "e", ".", "c", "o", "m">>,
     <<"y", "o", "u", "t", "u", ".", "b", "e">>,
     <<"e", "x", "a", "m", "p", "l", "e", ".", "c", "o", "m">>,
     <<"n", "e", "t", "f", "l", "i", "x", ".", "c", "o", "m">>,
     <<"w", "w", "w", ".", "i", "n", "s", "t", "a", "g", "r", "a", "m", ".", "c", "o", "m">>}
UrlPathChoices ==
    {<<>>,
     <<"/", "a", "b", "o", "u", "t">>,
     <<"/", "w", "a", "t", "c", "h">>,
     <<"/", "c", "l", "i", "p", ".", "m", "p", "4">>,
     <<"/", "C", "L", "I", "P", ".", "M", "P", "4">>,
     <<"/", "p", "/", "1">>,
     <<"/", "b", "l", "o", "g", "/", "v", "i", "m", "e", "o", ".", "c", "o", "m">>}
UrlQueryChoices ==
    {<<>>,
     <<"?", "v", "=", "a", "b", "c", "1", "2", "3">>,
     <<"?", "r", "e", "f", "=", "t", "w", "i", "t", "t", "e", "r", ".", "c", "o", "m">>,
     <<"?", "t", "=", "1">>}
UrlInputs ==
    {UrlScheme \o h \o p \o q :
        h \in UrlHostChoices, p \in UrlPathChoices, q \in UrlQueryChoices}

UrlInit ==
    /\ u_url \in UrlInputs
    /\ u_is_video = NoResult
    /\ ai_analysis = NoResult /\ sync_input = NoResult
    /\ sync_first = NoResult /\ sync_calls = 0
    /\ q_text = <<>> /\ q_metrics = NoResult
    /\ v_analysis = NoResult /\ v_text = <<>> /\ v_result = NoResult
    /\ d_text = <<>> /\ d_filename = <<>> /\ d_structure = NoResult
    /\ p_content = NoResult /\ p_page_num = 0 /\ p_stats = NoResult /\ p_text = <<>> /\ p_result = NoResult
    /\ r_endpoint = "none" /\ r_request = NoResult /\ r_route = "none" /\ r_stage = "idle" /\ r_nested = FALSE /\ r_url = <<>> /\ r_fetch = NoResult /\ r_video_info = NoResult /\ r_content = <<>> /\ r_filename = <<>> /\ r_outcome = NoResult /\ r_analysis = NoResult /\ r_synchronized = NoResult /\ r_args = [synchronize |-> NoResult, validate |-> NoResult] /\ r_steps = <<>> /\ r_result = NoResult
    /\ f_raw = <<>> /\ f_text = <<>> /\ f_stage = "idle" /\ f_report = NoResult
    /\ l_base = <<>> /\ l_anchors = <<>> /\ l_max_pages = 0 /\ l_links = NoResult
    /\ h_url = <<>> /\ h_fetch = NoResult /\ h_info = NoResult /\ h_content = NoResult
    /\ i_text = <<>> /\ i_metrics = NoResult /\ i_once = NoResult /\ i_twice = NoResult
    /\ x_input = NoResult /\ x_hash_order = <<>> /\ x_runs = <<>>

ClassifyUrl ==
    /\ u_is_video = NoResult
    /\ u_is_video' = [returned |-> TRUE, value |-> IsVideoUrl(u_url)]
    /\ UNCHANGED u_url

UrlNext == ClassifyUrl /\ UNCHANGED <<syncVars, qualVars, valVars, docVars, pdfVars, routeVars, fileVars, linkVars, handlerVars, improveVars, runVars>>

SpecUrl == UrlInit /\ [][UrlNext]_vars

\* The components of a url, as urllib.parse.urlsplit gives them: the host
\* runs from after "://" to the first "/" or "?", the path from there to
\* the first "?".
FirstIndexIn(s, chars, from) ==
    IF \E i \in from..Len(s) : s[i] \in chars
    THEN CHOOSE i \in from..Len(s) :
             /\ s[i] \in chars
             /\ \A j \in from..(i - 1) : s[j] \notin chars
    ELSE Len(s) + 1
UrlHost(url) ==
    SubSeq(url, Len(UrlScheme) + 1, FirstIndexIn(url, {"/", "?"}, Len(UrlScheme) + 1) - 1)
UrlPath(url) ==
    LET start == FirstIndexIn(url, {"/", "?"}, Len(UrlScheme) + 1)
    IN  SubSeq(url, start, FirstIndexIn(url, {"?"}, start) - 1)

\* The hosts of the video platforms; Instagram counts for its /p/ pages.
PlatformDomains ==
    {<<"y", "o", "u", "t", "u", "b", "e", ".", "c", "o", "m">>,
     <<"y", "o", "u", "t", "u", ".", "b", "e">>,
     <<"b", "i", "l", "i", "b", "i", "l", "i", ".", "c", "o", "m">>,
     <<"b", "2", "3", ".", "t", "v">>,
     <<"v", "i", "m", "e", "o", ".", "c", "o", "m">>,
     <<"d", "a", "i", "l", "y", "m", "o", "t", "i", "o", "n", ".", "c", "o", "m">>,
     <<"t", "w", "i", "t", "c", "h", ".", "t", "v">>,
     <<"t", "i", "k", "t", "o", "k", ".", "c", "o", "m">>,
     <<"i", "n", "s", "t", "a", "g", "r", "a", "m", ".", "c", "o", "m">>,
     <<"t", "w", "i", "t", "t", "e", "r", ".", "c", "o", "m">>,
     <<"x", ".", "c", "o", "m">>}
InstagramDomain == <<"i", "n", "s", "t", "a", "g", "r", "a", "m", ".", "c", "o", "m">>
InstagramPostPath == <<"/", "p", "/">>
HostIsPlatform(url) ==
    \E d \in PlatformDomains :
        /\ \/ UrlHost(url) = d
           \/ EndsWith(UrlHost(url), <<".">> \o d)
        /\ d = InstagramDomain => StartsWith(UrlPath(url), InstagramPostPath)
PathIsVideoFile(url) ==
    \E i \in 1..Len(VideoExtensions) : EndsWith(Lower(UrlPath(url)), VideoExtensions[i])

\* C11: is_video_url(url) is true exactly when the host of the url is one of
\* the known video-platform domains or the path of the url ends with a known
\* video file extension; a platform name in the path, in the query or as
\* the tail of another host name does not make the url a video.
C11_VideoIffHostOrExtension ==
    u_is_video.returned =>
        (u_is_video.value <=> (HostIsPlatform(u_url) \/ PathIsVideoFile(u_url)))

-----------------------------------------------------------------------------
(* Binary-document extractor: extract_pdf_with_improved_method.             *)
(* The reader (PyPDF2) is outside the program: what it does with the bytes  *)
(* is the input.  Either it cannot open them, or it gives a list of pages;  *)
(* a page is [load, primary, stream]: whether pdf_reader.pages[n] raises,   *)
(* what page.extract_text() does, and what the content stream holds.        *)
(* The returned string is kept as the sequence of the pieces it is          *)
(* formatted from; every piece is a non-empty literal frame around values.  *)

\* An operation of the reader that raises instead of returning.
Raises == <<"<raises>">>
\* A page without '/Contents', or a reader without _get_contents_as_bytes.
NoContents == <<"<no contents>">>
\* pdf_reader.pages[n] gives the page.
Loaded == <<"<page>">>

MinPrimaryChars == 50
MaxTextPartChars == 100
MaxTextParts == 9

\* s.split(ch) for a one-character separator: the pieces between the
\* occurrences of ch, in order.
SplitOn(s, ch) ==
    LET at == {i \in 1..Len(s) : s[i] = ch}
        pos(k) == CHOOSE i \in at : Cardinality({j \in at : j < i}) = k - 1
    IN  [k \in 1..(Cardinality(at) + 1) |->
            SubSeq(s,
                   IF k = 1 THEN 1 ELSE pos(k - 1) + 1,
                   IF k = Cardinality(at) + 1 THEN Len(s) ELSE pos(k) - 1)]

\* sep.join(parts)
RECURSIVE Join(_, _)
Join(sep, parts) ==
    IF parts = <<>> THEN <<>>
    ELSE IF Len(parts) = 1 THEN parts[1]
    ELSE parts[1] \o sep \o Join(sep, Tail(parts))

Contains(s, ch) == \E i \in 1..Len(s) : s[i] = ch

\* The texts between "(" and ")" of the first nine "(" of the stream, those
\* of 100 characters or more left out.
RECURSIVE TextParts(_)
TextParts(parts) ==
    IF parts = <<>> THEN <<>>
    ELSE LET part == Head(parts)
             text_part == SplitOn(part, ")")[1]
         IN  (IF Contains(part, ")") /\ Len(text_part) < MaxTextPartChars
              THEN <<text_part>> ELSE <<>>) \o TextParts(Tail(parts))

\* Step 1, page.extract_text() or "": the text, and whether the page was
\* counted as successful.
PrimaryText(page) == IF page.primary = Raises THEN <<>> ELSE page.primary
PrimarySuccessful(page) == page.primary # Raises /\ Strip(page.primary) # <<>>

\* Step 2, the extraction from the content stream when step 1 gave under
\* 50 characters; every failure in it leaves page_text as it was.
SecondaryText(page, page_text) ==
    IF Len(Strip(page_text)) >= MinPrimaryChars THEN page_text
    ELSE IF page.stream \in {NoContents, Raises} \/ page.stream = <<>> THEN page_text
    ELSE IF ~(Contains(page.stream, "(") /\ Contains(page.stream, ")")) THEN page_text
    ELSE LET parts == SplitOn(page.stream, "(")
             text_parts == TextParts(SubSeq(parts, 2, Min(Len(parts), MaxTextParts + 1)))
         IN  IF text_parts = <<>> THEN page_text ELSE Join(<<" ">>, text_parts)

PageText(page) == SecondaryText(page, PrimaryText(page))

\* One iteration of the loop over range(page_count).
ExtractPdfPage(stats, text, page_num, page) ==
    IF page.load = Raises
    THEN [stats |-> [stats EXCEPT !.failed_pages = @ + 1],
          text |-> Append(text, [kind |-> "page_failed", page |-> page_num + 1])]
    ELSE LET counted == IF PrimarySuccessful(page)
                        THEN [stats EXCEPT !.successful_pages = @ + 1]
                        ELSE stats
             page_text == PageText(page)
         IN  IF Strip(page_text) # <<>>
             THEN [stats |-> counted,
                   text |-> Append(text, [kind |-> "page", page |-> page_num + 1,
                                          page_text |-> page_text])]
             ELSE [stats |-> [counted EXCEPT !.empty_pages = @ + 1],
                   text |-> Append(text, [kind |-> "page_empty", page |-> page_num + 1])]

\* (successful_pages / max(total_pages, 1) * 100):.1f, in tenths of a percent
CompletenessTenths(stats) ==
    LET total == Max(stats.total_pages, 1)
    IN  (stats.successful_pages * 2000 + total) \div (2 * total)

\* stats_summary
StatsSummary(stats) ==
    <<[kind |-> "banner",
       total_pages |-> stats.total_pages,
       successful_pages |-> stats.successful_pages,
       empty_pages |-> stats.empty_pages,
       failed_pages |-> stats.failed_pages,
       completeness |-> CompletenessTenths(stats)]>>

\* The string returned by the outer except.
PdfFailureTextEmpty == <<>>
PdfFailureText == <<[kind |-> "extraction_failed"]>>

InitialStats(page_count) ==
    [total_pages |-> page_count, successful_pages |-> 0,
     empty_pages |-> 0, failed_pages |-> 0]

MaxPages == 2
ShortPageText == <<"H", "i">>
LongPageText == [i \in 1..MinPrimaryChars |-> "a"]
PrimaryChoices == {Raises, <<>>, <<" ">>, ShortPageText, LongPageText}
StreamChoices ==
    {NoContents, Raises, <<"B", "T", " ", "E", "T">>, <<"B", "T", " ", "(", "H", "e", "l", "l", "o", ")", " ", "T", "j", " ", "E", "T">>, <<"B", "T", " ", "(", " ", ")", " ", "T", "j", " ", "E", "T">>,
     <<"(">> \o [i \in 1..MaxTextPartChars |-> "b"] \o <<")">>}
PageChoices ==
    {[load |-> Raises, primary |-> Raises, stream |-> Raises]}
    \cup [load : {Loaded}, primary : PrimaryChoices, stream : StreamChoices]
PdfInputs ==
    {[opened |-> FALSE, pages |-> <<>>]}
    \cup {[opened |-> TRUE, pages |-> ps] : ps \in SeqsUpTo(PageChoices, MaxPages)}

PdfInit ==
    /\ p_content \in PdfInputs
    /\ p_page_num = 0
    /\ p_stats = NoResult
    /\ p_text = <<>>
    /\ p_result = NoResult
    /\ ai_analysis = NoResult /\ sync_input = NoResult
    /\ sync_first = NoResult /\ sync_calls = 0
    /\ q_text = <<>> /\ q_metrics = NoResult
    /\ v_analysis = NoResult /\ v_text = <<>> /\ v_result = NoResult
    /\ d_text = <<>> /\ d_filename = <<>> /\ d_structure = NoResult
    /\ u_url = <<>> /\ u_is_video = NoResult
    /\ r_endpoint = "none" /\ r_request = NoResult /\ r_route = "none" /\ r_stage = "idle" /\ r_nested = FALSE /\ r_url = <<>> /\ r_fetch = NoResult /\ r_video_info = NoResult /\ r_content = <<>> /\ r_filename = <<>> /\ r_outcome = NoResult /\ r_analysis = NoResult /\ r_synchronized = NoResult /\ r_args = [synchronize |-> NoResult, validate |-> NoResult] /\ r_steps = <<>> /\ r_result = NoResult
    /\ f_raw = <<>> /\ f_text = <<>> /\ f_stage = "idle" /\ f_report = NoResult
    /\ l_base = <<>> /\ l_anchors = <<>> /\ l_max_pages = 0 /\ l_links = NoResult
    /\ h_url = <<>> /\ h_fetch = NoResult /\ h_info = NoResult /\ h_content = NoResult
    /\ i_text = <<>> /\ i_metrics = NoResult /\ i_once = NoResult /\ i_twice = NoResult
    /\ x_input = NoResult /\ x_hash_order = <<>> /\ x_runs = <<>>

\* PdfReader(...) or len(pdf_reader.pages) raises: the outer except returns.
PdfOpenFails ==
    /\ p_result = NoResult /\ p_stats = NoResult
    /\ ~p_content.opened
    /\ p_result' = [returned |-> TRUE, raised |-> FALSE, text |-> PdfFailureText]
    /\ UNCHANGED <<p_content, p_page_num, p_stats, p_text>>

\* The reader opens the document: extraction_stats is set up.
PdfOpen ==
    /\ p_result = NoResult /\ p_stats = NoResult
    /\ p_content.opened
    /\ p_stats' = InitialStats(Len(p_content.pages))
    /\ UNCHANGED <<p_content, p_page_num, p_text, p_result>>

\* One page of the loop.
PdfPage ==
    /\ p_result = NoResult /\ p_stats # NoResult
    /\ p_page_num < Len(p_content.pages)
    /\ LET step == ExtractPdfPage(p_stats, p_text, p_page_num,
                                  p_content.pages[p_page_num + 1])
       IN  /\ p_stats' = step.stats
           /\ p_text' = step.text
    /\ p_page_num' = p_page_num + 1
    /\ UNCHANGED <<p_content, p_result>>

\* After the loop: final_text = stats_summary + text.strip()
PdfFinish ==
    /\ p_result = NoResult /\ p_stats # NoResult
    /\ p_page_num = Len(p_content.pages)
    /\ p_result' = [returned |-> TRUE, raised |-> FALSE,
                    text |-> StatsSummary(p_stats) \o p_text]
    /\ UNCHANGED <<p_content, p_page_num, p_stats, p_text>>

PdfNext ==
    /\ \/ PdfOpenFails
       \/ PdfOpen
       \/ PdfPage
       \/ PdfFinish
    /\ UNCHANGED <<syncVars, qualVars, valVars, docVars, urlVars, routeVars, fileVars, linkVars, handlerVars, improveVars, runVars>>

SpecPdf == PdfInit /\ [][PdfNext]_vars

BeginsWithBanner(text) == text # <<>> /\ text[1].kind = "banner"

C16_CountersSumToTotal ==
    (p_stats # NoResult /\ p_page_num = Len(p_content.pages)) =>
        p_stats.successful_pages + p_stats.empty_pages + p_stats.failed_pages
            = p_stats.total_pages

-----------------------------------------------------------------------------
(* Basic Analyzer and AI analyzer: create_basic_analysis,                   *)
(* safe_analyze_with_openai.  Documents are Text, names and filenames Str.  *)
(* The analyzer service is outside the program: what the call does is an    *)
(* input, [kind, ...]: no API key configured, the request raising           *)
(* ReadTimeout or another error with its message, a response with a status  *)
(* other than 200, a response body without choices, or a response with its  *)
(* output text.                                                             *)

UpperChar(c) ==
    IF c \in Range(LowerLetters)
    THEN UpperLetters[CHOOSE i \in 1..Len(LowerLetters) : LowerLetters[i] = c]
    ELSE c
\* str.upper()
Upper(s) == [i \in 1..Len(s) |-> UpperChar(s[i])]

\* str(n) for a natural number
DigitOf(d) == <<"0", "1", "2", "3", "4", "5", "6", "7", "8", "9">>[d + 1]
RECURSIVE NatToStr(_)
NatToStr(n) == IF n < 10 THEN <<DigitOf(n)>> ELSE Append(NatToStr(n \div 10), DigitOf(n % 10))

\* s.find(ch): the first index of ch, from 0, or -1
Find(s, ch) ==
    IF Contains(s, ch)
    THEN (CHOOSE i \in 1..Len(s) : s[i] = ch /\ \A j \in 1..(i - 1) : s[j] # ch) - 1
    ELSE -1

\* The concept and entity names of create_basic_analysis:
\* "document analysis", "content extraction", "PDF document",
\* "long document", "short document", "technical document",
\* "product document", "analysis report", "document content".
ConceptDocumentAnalysis == <<"U6587", "U6863", "U5206", "U6790">>
ConceptContentExtraction == <<"U5185", "U5BB9", "U63D0", "U53D6">>
ConceptPdf == <<"P", "D", "F", "U6587", "U6863">>
ConceptLong == <<"U957F", "U6587", "U6863">>
ConceptShort == <<"U77ED", "U6587", "U6863">>
ConceptTechnical == <<"U6280", "U672F", "U6587", "U6863">>
ConceptProduct == <<"U4EA7", "U54C1", "U6587", "U6863">>
ConceptReport == <<"U5206", "U6790", "U62A5", "U544A">>
EntityDocumentContent == <<"U6587", "U6863", "U5185", "U5BB9">>
\* The keywords looked for in the lowered text.
TechnicalKeywords == {<<"U6280", "U672F">>, <<"U7CFB", "U7EDF">>, <<"U5F00", "U53D1">>, <<"a", "p", "i">>, <<"U4EE3", "U7801">>}
ProductKeywords == {<<"U4EA7", "U54C1">>, <<"U9700", "U6C42">>, <<"U529F", "U80FD">>, <<"U7528", "U6237">>}
ReportKeywords == {<<"U5206", "U6790">>, <<"U62A5", "U544A">>, <<"U6570", "U636E">>, <<"U7EDF", "U8BA1">>}

LongDocumentChars == 1000
MinAnalyzedChars == 50
BasicConfidence == Frac(6, 10)
ErrorConfidence == Frac(1, 10)

\* "Basic analysis done." — the opening of the content of a basic analysis.
BasicAnalysisMark == <<"U57FA", "U7840", "U5206", "U6790", "U5B8C", "U6210">>
\* content of the basic analysis
BasicContent(filename, content_length) ==
    TCatAll(<<TextOf(BasicAnalysisMark \o <<"U3002", "U6587", "U6863", " ">>), TextOf(filename), TextOf(<<" ", "U5305", "U542B", " ">>),
              TextOf(NatToStr(content_length)), TextOf(<<" ", "U5B57", "U7B26", "U7684", "U5185", "U5BB9", "U3002", "U8FD9", "U662F", "U4E00", "U4E2A", "P", "D", "F", "U6587", "U6863", "U7684", "U57FA", "U7840", "U5206", "U6790", "U7ED3", "U679C", "UFF0C", "U5185", "U5BB9", "U5DF2", "U63D0", "U53D6", "U5E76", "U53EF", "U8FDB", "U884C", "U8FDB", "U4E00", "U6B65", "U5206", "U6790", "U3002">>)>>)

HasKeyword(text, keywords) == \E k \in keywords : TContains(TLower(text), TextOf(k))

\* create_basic_analysis(text_content, filename), the try branch; nothing in
\* it raises for a str text_content and a str filename.
CreateBasicAnalysis(text_content, filename) ==
    LET content_length == TLen(text_content)
        stem == SplitOn(filename, ".")[1]
        basic_concepts ==
            <<ConceptDocumentAnalysis, ConceptContentExtraction>>
            \o (IF IsSubstr(<<"P", "D", "F">>, Upper(filename)) THEN <<ConceptPdf>> ELSE <<>>)
            \o (IF content_length > LongDocumentChars THEN <<ConceptLong>>
                ELSE IF content_length > 0 THEN <<ConceptShort>> ELSE <<>>)
            \o (IF content_length > MinAnalyzedChars /\ HasKeyword(text_content, TechnicalKeywords)
                THEN <<ConceptTechnical>> ELSE <<>>)
            \o (IF content_length > MinAnalyzedChars /\ HasKeyword(text_content, ProductKeywords)
                THEN <<ConceptProduct>> ELSE <<>>)
            \o (IF content_length > MinAnalyzedChars /\ HasKeyword(text_content, ReportKeywords)
                THEN <<ConceptReport>> ELSE <<>>)
    IN  [content |-> BasicContent(filename, content_length),
         concepts |-> basic_concepts,
         entities |-> <<stem, EntityDocumentContent>>,
         relationships |-> <<[source |-> stem, target |-> EntityDocumentContent,
                              type |-> "contains"]>>,
         knowledgeTreeSuggestion |-> "document management/PDF document/unclassified",
         confidence |-> BasicConfidence]

\* The messages of the exceptions safe_analyze_with_openai raises itself.
NoApiKeyMessage == <<"O", "P", "E", "N", "A", "I", "_", "A", "P", "I", "_", "K", "E", "Y", "U672A", "U8BBE", "U7F6E">>
HttpErrorMessage(status_code) == <<"A", "P", "I", "U54CD", "U5E94", "U9519", "U8BEF", ":", " ">> \o NatToStr(status_code)
\* "OpenAI API call failed: "
ApiFailurePrefix == <<"O", "p", "e", "n", "A", "I", " ", "A", "P", "I", "U8C03", "U7528", "U5931", "U8D25", ":", " ">>

\* The dict returned by the outer except when the message names no timeout.
ApiErrorAnalysis(message) ==
    [content |-> TextOf(ApiFailurePrefix \o message),
     concepts |-> <<<<"A", "P", "I", "U9519", "U8BEF">>, <<"U8C03", "U7528", "U5931", "U8D25">>>>,
     entities |-> <<<<"O", "p", "e", "n", "A", "I">>, <<"A", "P", "I">>>>,
     knowledgeTreeSuggestion |-> "system error/API call failed",
     confidence |-> ErrorConfidence,
     debug_error |-> message]

\* The outer except: a basic analysis when the message names a timeout.
MentionsTimeout(message) ==
    \/ IsSubstr(<<"t", "i", "m", "e", "o", "u", "t">>, Lower(message))
    \/ IsSubstr(<<"R", "e", "a", "d", "T", "i", "m", "e", "o", "u", "t">>, message)
AnalyzerExcept(message, text_content, filename) ==
    IF MentionsTimeout(message)
    THEN CreateBasicAnalysis(text_content, filename)
    ELSE ApiErrorAnalysis(message)

\* json.loads on the texts the analyzer is made to answer with: the two
\* well-formed objects parse, every other text raises JSONDecodeError.
JsonTextFull == <<"{", "\"", "e", "n", "t", "i", "t", "i", "e", "s", "\"", ":", "[", "\"", "A", "\"", "]", ",", "\"", "c", "o", "n", "c", "e", "p", "t", "s", "\"", ":", "[", "]", ",", "\"", "r", "e", "l", "a", "t", "i", "o", "n", "s", "h", "i", "p", "s", "\"", ":", "[", "{", "\"", "s", "o", "u", "r", "c", "e", "\"", ":", "\"", "A", "\"", ",", "\"", "t", "a", "r", "g", "e", "t", "\"", ":", "\"", "B", "\"", "}", "]", "}">>
JsonTextEntitiesOnly == <<"{", "\"", "e", "n", "t", "i", "t", "i", "e", "s", "\"", ":", "[", "\"", "A", "\"", "]", "}">>
JsonDecodeError == [decoded |-> FALSE]
JsonLoads(text) ==
    IF text = JsonTextFull
    THEN [decoded |-> TRUE,
          value |-> [entities |-> <<<<"A">>>>, concepts |-> <<>>,
                     relationships |-> <<[source |-> <<"A">>, target |-> <<"B">>]>>]]
    ELSE IF text = JsonTextEntitiesOnly
    THEN [decoded |-> TRUE, value |-> [entities |-> <<<<"A">>>>]]
    ELSE JsonDecodeError

\* A record with one more field, or with that field replaced: d[key] = value
SetField(d, key, value) ==
    [k \in DOMAIN d \cup {key} |-> IF k = key THEN value ELSE d[k]]
\* d.get(key, default)
Get(d, key, default) == IF key \in DOMAIN d THEN d[key] ELSE default

JsonFence == <<"U0060", "U0060", "U0060", "j", "s", "o", "n">>
Fence == <<"U0060", "U0060", "U0060">>

\* The handling of the output text of a 200 response.
AnalyzeOutput(result_text, text_content, filename) ==
    LET stripped == Strip(result_text)
        unfenced1 == IF StartsWith(stripped, JsonFence)
                     THEN SubSeq(stripped, Len(JsonFence) + 1, Len(stripped)) ELSE stripped
        unfenced2 == IF StartsWith(unfenced1, Fence)
                     THEN SubSeq(unfenced1, Len(Fence) + 1, Len(unfenced1)) ELSE unfenced1
        unfenced3 == IF EndsWith(unfenced2, Fence)
                     THEN SubSeq(unfenced2, 1, Len(unfenced2) - Len(Fence)) ELSE unfenced2
        clean_text == Strip(unfenced3)
        start_idx == Find(clean_text, "{")
        from_brace == IF StartsWith(clean_text, <<"{">>) THEN clean_text
                      ELSE SubSeq(clean_text, start_idx + 1, Len(clean_text))
        closed == IF EndsWith(from_brace, <<"}">>) THEN from_brace ELSE Append(from_brace, "}")
    IN  IF stripped = <<>> THEN CreateBasicAnalysis(text_content, filename)
        ELSE IF clean_text = <<>> THEN CreateBasicAnalysis(text_content, filename)
        ELSE IF ~StartsWith(clean_text, <<"{">>) /\ start_idx = -1
             THEN CreateBasicAnalysis(text_content, filename)
        ELSE IF ~JsonLoads(closed).decoded THEN CreateBasicAnalysis(text_content, filename)
        ELSE SetField(JsonLoads(closed).value, "content", text_content)

\* safe_analyze_with_openai(text_content, filename) when the call does
\* outcome.  It returns in every case: the outer except catches whatever
\* the body raises.
SafeAnalyzeWithOpenai(outcome, text_content, filename) ==
    CASE outcome.kind = "no_api_key" ->
            AnalyzerExcept(NoApiKeyMessage, text_content, filename)
      [] outcome.kind = "read_timeout" ->
            CreateBasicAnalysis(text_content, filename)
      [] outcome.kind = "request_error" ->
            AnalyzerExcept(outcome.message, text_content, filename)
      [] outcome.kind = "http_status" ->
            IF outcome.status_code # 200
            THEN AnalyzerExcept(HttpErrorMessage(outcome.status_code), text_content, filename)
            ELSE AnalyzeOutput(outcome.result_text, text_content, filename)
      [] outcome.kind = "no_choices" ->
            AnalyzerExcept(outcome.message, text_content, filename)

\* What the analyzer call can do.
ConnectTimeoutMessage == <<"(", "c", "o", "n", "n", "e", "c", "t", " ", "t", "i", "m", "e", "o", "u", "t", "=", "1", "0", ")">>
ConnectionRefusedMessage == <<"C", "o", "n", "n", "e", "c", "t", "i", "o", "n", " ", "r", "e", "f", "u", "s", "e", "d">>
NoChoicesMessage == <<"'", "c", "h", "o", "i", "c", "e", "s", "'">>
\* The output texts: those that are empty, hold no object or hold one that
\* does not parse, and those that hold an object that parses.
FailedOutputs ==
    {<<>>, <<" ">>, JsonFence \o <<"\n">> \o Fence, <<"N", "o", " ", "d", "a", "t", "a", ".">>, <<"{", "o", "o", "p", "s">>}
ParsedOutputs ==
    {JsonTextFull, JsonTextEntitiesOnly,
     JsonFence \o <<"\n">> \o JsonTextFull \o <<"\n">> \o Fence,
     <<"H", "e", "r", "e", ":", " ">> \o JsonTextFull,
     SubSeq(JsonTextFull, 1, Len(JsonTextFull) - 1)}
AnalyzerOutputs == FailedOutputs \cup ParsedOutputs
AnalyzerOutcomes ==
    {[kind |-> "no_api_key"], [kind |-> "read_timeout"]}
    \cup {[kind |-> "request_error", message |-> m] :
            m \in {ConnectTimeoutMessage, ConnectionRefusedMessage}}
    \cup {[kind |-> "http_status", status_code |-> 500, result_text |-> <<>>]}
    \cup {[kind |-> "no_choices", message |-> NoChoicesMessage]}
    \cup {[kind |-> "http_status", status_code |-> 200, result_text |-> o] :
            o \in AnalyzerOutputs}

\* The failures of the external analyzer the pipeline is to survive: no API
\* key, a read timeout, a connection error, a response other than 200, an
\* output that is empty, holds no object, or holds one that does not parse.
AnalyzerFailed(outcome) ==
    \/ outcome.kind \in {"no_api_key", "read_timeout", "request_error"}
    \/ /\ outcome.kind = "http_status"
       /\ \/ outcome.status_code # 200
          \/ outcome.result_text \in FailedOutputs

-----------------------------------------------------------------------------
(* The routes: scrape_website, extract_video_content, analyze_document.     *)
(* A run is followed stage by stage.  The network is outside the program:   *)
(* what a fetch gives, or the exception it raises, is an input.  The calls  *)
(* of the synchronizer, the quality scorer, the validator and the           *)
(* structurer are recorded in r_steps with the arguments they are given;    *)
(* the functions themselves are modelled in their own sections.             *)

\* text, character by character
TExpand(t) ==
    LET before(k) == SeqSum([j \in 1..(k - 1) |-> t[j].n])
    IN  [i \in 1..TLen(t) |->
            t[CHOOSE k \in 1..Len(t) : before(k) < i /\ i <= before(k) + t[k].n].c]

\* sep.join(parts) for texts
TJoin(sep, parts) ==
    TCatAll([i \in 1..(2 * Len(parts) - 1) |->
                IF i % 2 = 1 THEN parts[(i + 1) \div 2] ELSE sep])

\* s.replace(a, b) for single characters
Replace(s, a, b) == [i \in 1..Len(s) |-> IF s[i] = a THEN b ELSE s[i]]

\* request.get("url") or request.get("website_url") or request.get("link")
UrlOfOrDefault(request) ==
    IF Get(request, "url", <<>>) # <<>> THEN request.url
    ELSE IF Get(request, "website_url", <<>>) # <<>> THEN request.website_url
    ELSE <<"h", "t", "t", "p", "s", ":", "/", "/", "e", "x", "a", "m", "p", "l", "e", ".", "c", "o", "m", "/", "a", "b", "o", "u", "t">>
UrlOf(request) ==
    IF Get(request, "url", <<>>) # <<>> THEN request.url
    ELSE IF Get(request, "website_url", <<>>) # <<>> THEN request.website_url
    ELSE Get(request, "link", <<>>)

\* The result of the except of scrape_website and of extract_video_content,
\* and the body of the JSONResponse of the except of analyze_document.
ErrorResult(message) == [returned |-> TRUE, status |-> "error", message |-> message]
MissingUrlMessage == <<"U", "R", "L", "U53C2", "U6570", "U7F3A", "U5931">>
TitleKeyError == <<"'", "t", "i", "t", "l", "e", "'">>

\* video_info as extract_video_content sets it up
InitialVideoInfo ==
    [platform |-> <<"u", "n", "k", "n", "o", "w", "n">>, title |-> <<>>, description |-> <<>>, duration |-> <<>>,
     uploader |-> <<>>, view_count |-> <<>>, upload_date |-> <<>>, tags |-> <<>>,
     transcript |-> <<>>, comments_sample |-> <<>>]

\* The watch page a handler fetched is the record of what its extraction
\* strategies find in it, each value cleaned as the handler cleans it:
\* title, uploader, description, view_count, duration, upload_date, and, for
\* YouTube, the transcript the transcript service gives.  An empty value is
\* a field no strategy finds.

MaxDescriptionChars == 500
MaxTitleChars == 50
MaxComments == 5
MinYoutubeTitleChars == 5
MinYoutubeDescriptionChars == 20
MinChannelChars == 1
MinTranscriptChars == 50
MinBilibiliDescriptionChars == 10
TitlePoints == 50
DescriptionPoints == 30
ChannelPoints == 20
TranscriptPoints == 30

YoutubePlatform == <<"y", "o", "u", "t", "u", "b", "e">>
BilibiliPlatform == <<"B", "i", "l", "i", "b", "i", "l", "i">>
\* the titles and the channels the YouTube handler rejects
RejectedTitles == {<<"U5173", "U4E8E">>, <<"U65B0", "U95FB">>, <<"U7248", "U6743">>, <<"U8054", "U7CFB", "U6211", "U4EEC">>, <<"Y", "o", "u", "T", "u", "b", "e">>}
RejectedChannels == {<<"Y", "o", "u", "T", "u", "b", "e">>, <<"G", "o", "o", "g", "l", "e">>, <<"U5173", "U4E8E">>, <<"U65B0", "U95FB">>}

\* extract_youtube_content_with_cobalt: title_found, desc_found,
\* channel_found and the test of the transcript
YoutubeTitleFound(page) ==
    /\ Len(page.title) > MinYoutubeTitleChars
    /\ page.title \notin RejectedTitles
    /\ ~StartsWith(page.title, <<"w", "w", "w", ".">>)
YoutubeDescFound(page) == TLen(page.description) > MinYoutubeDescriptionChars
YoutubeChannelFound(page) ==
    Len(page.uploader) > MinChannelChars /\ page.uploader \notin RejectedChannels
YoutubeTranscriptFound(page) ==
    page.transcript # <<>> /\ TLen(page.transcript) > MinTranscriptChars

\* extract_youtube_content_with_cobalt: quality_score
YoutubeQualityScore(page) ==
    (IF YoutubeTitleFound(page) THEN TitlePoints ELSE 0)
    + (IF YoutubeDescFound(page) THEN DescriptionPoints ELSE 0)
    + (IF YoutubeChannelFound(page) THEN ChannelPoints ELSE 0)
    + (IF YoutubeTranscriptFound(page) THEN TranscriptPoints ELSE 0)

\* extract_youtube_content_with_cobalt: its except returns a new dict.
ExtractYoutubeContentWithCobalt(video_info, fetch) ==
    IF fetch.kind = "ok"
    THEN LET page == fetch.page
             read == [video_info EXCEPT
                        !.title = IF YoutubeTitleFound(page) THEN page.title ELSE @,
                        !.description = IF YoutubeDescFound(page)
                                        THEN TTake(page.description, MaxDescriptionChars) ELSE @,
                        !.uploader = IF YoutubeChannelFound(page) THEN page.uploader ELSE @,
                        !.platform = YoutubePlatform,
                        !.transcript = IF YoutubeTranscriptFound(page) THEN page.transcript ELSE @]
             scored == SetField(SetField(read, "extraction_status", "success"),
                                "quality_score", YoutubeQualityScore(page))
         IN  IF YoutubeTranscriptFound(page)
             THEN SetField(scored, "video_content", page.transcript)
             ELSE scored
    ELSE [platform |-> YoutubePlatform, extraction_status |-> "failed",
          error |-> fetch.message, quality_score |-> 0]

TitlePlaceholder == <<"U6807", "U9898", "U63D0", "U53D6", "U5931", "U8D25", " ", "-", " ", "U53EF", "U80FD", "U9875", "U9762", "U7ED3", "U6784", "U5DF2", "U53D8", "U5316">>
UploaderPlaceholder == <<"U", "P", "U4E3B", "U4FE1", "U606F", "U672A", "U627E", "U5230">>
DescriptionPlaceholder == TextOf(<<"U63CF", "U8FF0", "U4FE1", "U606F", "U672A", "U627E", "U5230">>)

\* extract_bilibili_content: title, uploader and description get a
\* placeholder when nothing is found; its except fills in the three.
ExtractBilibiliContent(video_info, fetch) ==
    IF fetch.kind = "ok"
    THEN LET page == fetch.page
         IN  [video_info EXCEPT
                !.platform = BilibiliPlatform,
                !.title = IF page.title # <<>> THEN page.title ELSE TitlePlaceholder,
                !.uploader = IF page.uploader # <<>> THEN page.uploader ELSE UploaderPlaceholder,
                !.description = IF TLen(page.description) > MinBilibiliDescriptionChars
                                THEN page.description ELSE DescriptionPlaceholder,
                !.view_count = page.view_count,
                !.duration = page.duration,
                !.upload_date = page.upload_date]
    ELSE [video_info EXCEPT !.platform = BilibiliPlatform,
                            !.title = <<"U63D0", "U53D6", "U5931", "U8D25">> \o <<":", " ">> \o fetch.message,
                            !.uploader = <<"U63D0", "U53D6", "U5931", "U8D25">>,
                            !.description = TextOf(<<"B", "i", "l", "i", "b", "i", "l", "i", "U89C6", "U9891", "U5185", "U5BB9", "U63D0", "U53D6", "U9047", "U5230", "U9519", "U8BEF", ":", " ">> \o fetch.message)]

\* extract_vimeo_content, extract_generic_video_content: title and
\* description are read; the except returns video_info as it is, the
\* platform set.
ExtractVimeoContent(video_info, fetch) ==
    IF fetch.kind = "ok"
    THEN [video_info EXCEPT !.platform = <<"V", "i", "m", "e", "o">>,
                            !.title = fetch.page.title,
                            !.description = fetch.page.description]
    ELSE [video_info EXCEPT !.platform = <<"V", "i", "m", "e", "o">>]
ExtractGenericVideoContent(video_info, fetch) ==
    IF fetch.kind = "ok"
    THEN [video_info EXCEPT !.platform = <<"G", "e", "n", "e", "r", "i", "c", " ", "V", "i", "d", "e", "o">>,
                            !.title = fetch.page.title,
                            !.description = fetch.page.description]
    ELSE [video_info EXCEPT !.platform = <<"G", "e", "n", "e", "r", "i", "c", " ", "V", "i", "d", "e", "o">>]

\* The platform test of extract_video_content.
VideoPlatform(url) ==
    IF IsSubstr(<<"y", "o", "u", "t", "u", "b", "e", ".", "c", "o", "m">>, url) \/ IsSubstr(<<"y", "o", "u", "t", "u", ".", "b", "e">>, url) THEN "youtube"
    ELSE IF IsSubstr(<<"b", "i", "l", "i", "b", "i", "l", "i", ".", "c", "o", "m">>, url) \/ IsSubstr(<<"b", "2", "3", ".", "t", "v">>, url) THEN "bilibili"
    ELSE IF IsSubstr(<<"v", "i", "m", "e", "o", ".", "c", "o", "m">>, url) THEN "vimeo"
    ELSE "generic"
VideoHandlerResult(url, fetch) ==
    CASE VideoPlatform(url) = "youtube" -> ExtractYoutubeContentWithCobalt(InitialVideoInfo, fetch)
      [] VideoPlatform(url) = "bilibili" -> ExtractBilibiliContent(InitialVideoInfo, fetch)
      [] VideoPlatform(url) = "vimeo" -> ExtractVimeoContent(InitialVideoInfo, fetch)
      [] OTHER -> ExtractGenericVideoContent(InitialVideoInfo, fetch)

\* content_parts joined by a blank line: "Title: ", "Creator: ", "Duration: ",
\* "Views: ", "Published: ", "Description: ", "Tags: ", "Transcript: ",
\* "Top comments: ".
VideoContentParts(video_info) ==
    (IF video_info.title # <<>> THEN <<TextOf(<<"U6807", "U9898", ":", " ">> \o video_info.title)>> ELSE <<>>)
    \o (IF video_info.uploader # <<>> THEN <<TextOf(<<"U521B", "U4F5C", "U8005", ":", " ">> \o video_info.uploader)>> ELSE <<>>)
    \o (IF video_info.duration # <<>> THEN <<TextOf(<<"U65F6", "U957F", ":", " ">> \o video_info.duration)>> ELSE <<>>)
    \o (IF video_info.view_count # <<>> THEN <<TextOf(<<"U64AD", "U653E", "U91CF", ":", " ">> \o video_info.view_count)>> ELSE <<>>)
    \o (IF video_info.upload_date # <<>> THEN <<TextOf(<<"U53D1", "U5E03", "U65F6", "U95F4", ":", " ">> \o video_info.upload_date)>> ELSE <<>>)
    \o (IF video_info.description # <<>>
        THEN <<TCat(TextOf(<<"U63CF", "U8FF0", ":", " ">>), video_info.description)>> ELSE <<>>)
    \o (IF video_info.tags # <<>>
        THEN <<TextOf(<<"U6807", "U7B7E", ":", " ">> \o Join(<<",", " ">>, video_info.tags))>> ELSE <<>>)
    \o (IF video_info.transcript # <<>>
        THEN <<TCat(TextOf(<<"U5B57", "U5E55", "/", "U8F6C", "U5F55", ":", " ">>), video_info.transcript)>> ELSE <<>>)
    \o (IF video_info.comments_sample # <<>>
        THEN <<TextOf(<<"U70ED", "U95E8", "U8BC4", "U8BBA", ":", " ">> \o Join(<<";", " ">>,
                    SubSeq(video_info.comments_sample, 1,
                           Min(Len(video_info.comments_sample), MaxComments))))>>
        ELSE <<>>)
CombinedVideoContent(video_info) == TJoin(TextOf(<<"\n", "\n">>), VideoContentParts(video_info))

\* virtual_filename of the video route
VideoFilename(video_info) ==
    <<"v", "i", "d", "e", "o", "_">> \o Lower(video_info.platform) \o <<"_">>
    \o Replace(SubSeq(video_info.title, 1, Min(Len(video_info.title), MaxTitleChars)), " ", "_")
    \o <<".", "t", "x", "t">>

\* The web route: combined_content of the main page, and virtual_filename.
IsGithubUrl(url) == IsSubstr(<<"g", "i", "t", "h", "u", "b", ".", "c", "o", "m">>, url)
CombinedWebContent(url, page) ==
    TCatAll(<<TextOf(<<"U", "R", "L", ":", " ">> \o url \o <<"\n", "\n">>),
              TextOf(<<"=", "=", "=", " ">> \o page.title \o <<".", "t", "x", "t">> \o <<" ", "=", "=", "=", "\n">>),
              TextOf(<<"U7F51", "U7AD9", "U6807", "U9898", ":", " ">> \o page.title \o <<"\n">> \o <<"U7F51", "U7AD9", "U", "R", "L", ":", " ">> \o url \o <<"\n", "\n">>),
              page.main_content,
              TextOf(<<"\n", "\n">>)>>)
WebFilename(url) ==
    LET segments == SplitOn(url, "/")
        last == segments[Len(segments)]
    IN  <<"s", "c", "r", "a", "p", "e", "d", "_">>
        \o (IF IsGithubUrl(url) THEN <<"g", "i", "t", "h", "u", "b", "_", "s", "p", "e", "c", "i", "a", "l", "i", "z", "e", "d">> ELSE <<"u", "n", "i", "v", "e", "r", "s", "a", "l", "_", "d", "e", "e", "p", "_", "c", "r", "a", "w", "l", "i", "n", "g">>)
        \o <<"_">> \o (IF last # <<>> THEN last ELSE <<"w", "e", "b", "s", "i", "t", "e">>) \o <<".", "t", "x", "t">>

MaxUrlTextChars == 500
\* analyze_document: the uploaded text is a single url
IsUrlText(text_content) ==
    LET cleaned_content == TStrip(text_content)
    IN  /\ \/ TStartsWith(cleaned_content, TextOf(<<"h", "t", "t", "p", ":", "/", "/">>))
           \/ TStartsWith(cleaned_content, TextOf(<<"h", "t", "t", "p", "s", ":", "/", "/">>))
        /\ Len(TSplit(cleaned_content)) = 1
        /\ TLen(cleaned_content) < MaxUrlTextChars

\* analyze_document: the analysis of a text of 50 characters or fewer:
\* concepts "document processing", "content extraction", entities
\* "document", "system".
LowContentAnalysis(filename) ==
    [content |-> TextOf(<<"U6587", "U6863", "U5185", "U5BB9", "U8F83", "U5C11", "U6216", "U65E0", "U6CD5", "U63D0", "U53D6", "UFF0C", "U6587", "U4EF6", "U540D", "UFF1A">> \o filename),
     concepts |-> <<<<"U6587", "U6863", "U5904", "U7406">>, ConceptContentExtraction>>,
     entities |-> <<<<"U6587", "U6863">>, <<"U7CFB", "U7EDF">>>>,
     knowledgeTreeSuggestion |-> "document management/unclassified/to process",
     confidence |-> Frac(5, 10)]

\* The video route: the content of an analysis that is generic or short is
\* replaced by the video content.
GenericContentMark == <<"U5173", "U4E8E", " ", "U65B0", "U95FB", " ", "U7248", "U6743">>
MinAiContentChars == 100
FixVideoContent(analysis, combined_content) ==
    LET ai_content == Get(analysis, "content", <<>>)
    IN  IF \/ TContains(ai_content, TextOf(BasicAnalysisMark))
           \/ TContains(ai_content, TextOf(GenericContentMark))
           \/ TLen(ai_content) < MinAiContentChars
        THEN SetField(SetField(analysis, "content", combined_content),
                      "original_ai_content", ai_content)
        ELSE analysis

\* synchronize_graph_data on a dict that may lack keys
SynchronizedData(analysis) ==
    {SetField(analysis, "entities", s.entities) :
        s \in SynchronizeGraphData([entities |-> Get(analysis, "entities", <<>>),
                                    concepts |-> Get(analysis, "concepts", <<>>),
                                    relationships |-> Get(analysis, "relationships", <<>>)])}

\* The order of the stages after the content is there.
RouteOrder(route) ==
    CASE route = "file" ->
            <<"analyze", "quality", "validate", "synchronize", "structure", "respond">>
      [] route = "web" ->
            <<"analyze", "synchronize", "quality", "validate", "structure", "respond">>
      [] route = "video" ->
            <<"analyze", "fix_content", "synchronize", "quality", "validate",
              "structure", "respond">>
After(route, stage) ==
    LET order == RouteOrder(route)
    IN  order[(CHOOSE i \in 1..Len(order) : order[i] = stage) + 1]

\* What the fetch of a watch page or of a web page can do.
RichVideoPage ==
    [title |-> <<"D", "e", "m", "o", " ", "t", "a", "l", "k">>, uploader |-> <<"A", "n", "n">>,
     description |-> Rep("d", 120), view_count |-> <<"1", "U4E07", "U64AD", "U653E">>,
     duration |-> <<"1", "0", ":", "0", "0">>, upload_date |-> <<"2", "0", "2", "4">>,
     transcript |-> Rep("t", 60)]
BareVideoPage ==
    [title |-> <<>>, uploader |-> <<>>, description |-> <<>>, view_count |-> <<>>,
     duration |-> <<>>, upload_date |-> <<>>, transcript |-> <<>>]
FetchErrors == {<<"R", "e", "a", "d", " ", "t", "i", "m", "e", "d", " ", "o", "u", "t", ".", " ", "(", "r", "e", "a", "d", " ", "t", "i", "m", "e", "o", "u", "t", "=", "1", "5", ")">>, <<"4", "0", "4", " ", "C", "l", "i", "e", "n", "t", " ", "E", "r", "r", "o", "r">>}
VideoFetchOutcomes ==
    {[kind |-> "ok", page |-> p] : p \in {RichVideoPage, BareVideoPage}}
    \cup {[kind |-> "raises", message |-> m] : m \in FetchErrors}
WebFetchOutcomes ==
    {[kind |-> "ok", page |-> p] :
        p \in {[title |-> <<"H", "o", "m", "e">>, main_content |-> Rep("w", 200)],
               [title |-> <<"U", "n", "k", "n", "o", "w", "n">>, main_content |-> <<>>]}}
    \cup {[kind |-> "raises", message |-> m] : m \in FetchErrors}

\* The requests.
YoutubeUrl == <<"h", "t", "t", "p", "s", ":", "/", "/", "w", "w", "w", ".", "y", "o", "u", "t", "u", "b", "e", ".", "c", "o", "m", "/", "w", "a", "t", "c", "h", "?", "v", "=", "a", "b", "c", "1", "2", "3">>
RequestUrls ==
    {YoutubeUrl, <<"h", "t", "t", "p", "s", ":", "/", "/", "w", "w", "w", ".", "b", "i", "l", "i", "b", "i", "l", "i", ".", "c", "o", "m", "/", "v", "i", "d", "e", "o", "/", "B", "V", "1">>, <<"h", "t", "t", "p", "s", ":", "/", "/", "v", "i", "m", "e", "o", ".", "c", "o", "m", "/", "1">>, <<"h", "t", "t", "p", "s", ":", "/", "/", "e", "x", "a", "m", "p", "l", "e", ".", "c", "o", "m", "/", "c", "l", "i", "p", ".", "m", "p", "4">>, <<"h", "t", "t", "p", "s", ":", "/", "/", "e", "x", "a", "m", "p", "l", "e", ".", "c", "o", "m", "/", "a", "b", "o", "u", "t">>, <<"h", "t", "t", "p", "s", ":", "/", "/", "g", "i", "t", "h", "u", "b", ".", "c", "o", "m", "/", "o", "/", "r">>}
ScrapeRequests ==
    {[url |-> u] : u \in RequestUrls}
    \cup {[website_url |-> <<"h", "t", "t", "p", "s", ":", "/", "/", "e", "x", "a", "m", "p", "l", "e", ".", "c", "o", "m", "/", "a", "b", "o", "u", "t">>], [link |-> <<"h", "t", "t", "p", "s", ":", "/", "/", "v", "i", "m", "e", "o", ".", "c", "o", "m", "/", "1">>],
          [query |-> <<"h", "t", "t", "p", "s", ":", "/", "/", "e", "x", "a", "m", "p", "l", "e", ".", "c", "o", "m", "/", "a", "b", "o", "u", "t">>], [url |-> <<>>]}
UploadedTexts ==
    {TextOf(YoutubeUrl), TextOf(<<"h", "t", "t", "p", "s", ":", "/", "/", "e", "x", "a", "m", "p", "l", "e", ".", "c", "o", "m", "/", "a", "b", "o", "u", "t">>), TextOf(<<"a", "b", "c">>),
     TCat(TextOf(<<"A", "P", "I", " ">>), Rep("x", 60)), Rep("y", LongDocumentChars + 1)}
UploadedFilenames == {<<"a", ".", "p", "d", "f">>, <<"n", "o", "t", "e", "s", ".", "t", "x", "t">>}
UploadRequests == [text_content : UploadedTexts, filename : UploadedFilenames]

NoArgs == [synchronize |-> NoResult, validate |-> NoResult]

RoutesInit ==
    /\ \/ r_endpoint = "scrape_website" /\ r_request \in ScrapeRequests /\ r_stage = "scrape"
       \/ r_endpoint = "analyze_document" /\ r_request \in UploadRequests /\ r_stage = "upload"
    /\ r_route = "none"
    /\ r_nested = FALSE
    /\ r_url = <<>>
    /\ r_fetch = NoResult
    /\ r_video_info = NoResult
    /\ r_content = <<>>
    /\ r_filename = <<>>
    /\ r_outcome = NoResult
    /\ r_analysis = NoResult
    /\ r_synchronized = NoResult
    /\ r_args = NoArgs
    /\ r_steps = <<>>
    /\ r_result = NoResult
    /\ ai_analysis = NoResult /\ sync_input = NoResult
    /\ sync_first = NoResult /\ sync_calls = 0
    /\ q_text = <<>> /\ q_metrics = NoResult
    /\ v_analysis = NoResult /\ v_text = <<>> /\ v_result = NoResult
    /\ d_text = <<>> /\ d_filename = <<>> /\ d_structure = NoResult
    /\ u_url = <<>> /\ u_is_video = NoResult
    /\ p_content = NoResult /\ p_page_num = 0 /\ p_stats = NoResult
    /\ p_text = <<>> /\ p_result = NoResult
    /\ f_raw = <<>> /\ f_text = <<>> /\ f_stage = "idle" /\ f_report = NoResult
    /\ l_base = <<>> /\ l_anchors = <<>> /\ l_max_pages = 0 /\ l_links = NoResult
    /\ h_url = <<>> /\ h_fetch = NoResult /\ h_info = NoResult /\ h_content = NoResult
    /\ i_text = <<>> /\ i_metrics = NoResult /\ i_once = NoResult /\ i_twice = NoResult
    /\ x_input = NoResult /\ x_hash_order = <<>> /\ x_runs = <<>>

\* The request scrape_website is working on: its own, or the one
\* analyze_document made of the uploaded url.
ScrapeRequest ==
    IF r_nested THEN [url |-> r_url] ELSE r_request

\* scrape_website returns result to its caller, whatever the status.
ScrapeReturnAsItIs(nested, result) ==
    [stage |-> "done", route |-> r_route, result |-> result]

\* scrape_website returns result: to its caller, or, when analyze_document
\* called it and the status is not success, into the text analysis of the
\* uploaded file.
ScrapeReturn(nested, result) ==
    IF nested /\ result.status # "success"
    THEN [stage |-> "analyze", route |-> "file", result |-> NoResult]
    ELSE [stage |-> "done", route |-> r_route, result |-> result]

\* analyze_document: reading the upload raises; the except answers with
\* the JSONResponse whose body has status error.
UploadReadFails ==
    /\ r_stage = "upload"
    /\ r_stage' = "done"
    /\ r_result' = ErrorResult(<<"r", "e", "a", "d", " ", "f", "a", "i", "l", "e", "d">>)
    /\ UNCHANGED <<r_endpoint, r_request, r_route, r_nested, r_url, r_fetch, r_video_info,
                   r_content, r_filename, r_outcome, r_analysis, r_synchronized, r_args,
                   r_steps>>

\* analyze_document: the text is extracted; a text that is one url goes to
\* scrape_website, any other to the analysis.
Upload ==
    /\ r_stage = "upload"
    /\ r_content' = r_request.text_content
    /\ r_filename' = r_request.filename
    /\ IF IsUrlText(r_request.text_content)
       THEN /\ r_nested' = TRUE /\ r_stage' = "scrape" /\ r_route' = r_route
            /\ r_url' = TExpand(TStrip(r_request.text_content))
       ELSE /\ r_nested' = FALSE /\ r_stage' = "analyze" /\ r_route' = "file"
            /\ r_url' = r_url
    /\ UNCHANGED <<r_endpoint, r_request, r_fetch, r_video_info, r_outcome,
                   r_analysis, r_synchronized, r_args, r_steps, r_result>>

\* scrape_website: no url in the request: ValueError, caught by the except.
ScrapeMissingUrl ==
    /\ r_stage = "scrape"
    /\ UrlOf(ScrapeRequest) = <<>>
    /\ LET ret == ScrapeReturn(r_nested, ErrorResult(MissingUrlMessage))
       IN  r_stage' = ret.stage /\ r_route' = ret.route /\ r_result' = ret.result
    /\ r_nested' = FALSE
    /\ UNCHANGED <<r_endpoint, r_request, r_url, r_fetch, r_video_info, r_content,
                   r_filename, r_outcome, r_analysis, r_synchronized, r_args, r_steps>>

\* scrape_website: the url is classified.
ScrapeResolve ==
    /\ r_stage = "scrape"
    /\ UrlOf(ScrapeRequest) # <<>>
    /\ r_url' = UrlOf(ScrapeRequest)
    /\ IF IsVideoUrl(UrlOf(ScrapeRequest))
       THEN r_route' = "video" /\ r_stage' = "video_handler"
       ELSE r_route' = "web" /\ r_stage' = "web_fetch"
    /\ UNCHANGED <<r_endpoint, r_request, r_nested, r_fetch, r_video_info, r_content,
                   r_filename, r_outcome, r_analysis, r_synchronized, r_args, r_steps,
                   r_result>>

\* extract_video_content: the platform handler fetches the watch page.
VideoHandler ==
    /\ r_stage = "video_handler"
    /\ \E fetch \in VideoFetchOutcomes :
          /\ r_fetch' = fetch
          /\ r_video_info' = VideoHandlerResult(r_url, fetch)
    /\ r_steps' = Append(r_steps, "fetch")
    /\ r_stage' = "video_content"
    /\ UNCHANGED <<r_endpoint, r_request, r_route, r_nested, r_url, r_content, r_filename,
                   r_outcome, r_analysis, r_synchronized, r_args, r_result>>

\* extract_video_content: video_info["title"] on a dict without the key
\* raises KeyError; the except returns the error result, which
\* scrape_website returns as it is.
VideoContentKeyError ==
    /\ r_stage = "video_content"
    /\ "title" \notin DOMAIN r_video_info
    /\ LET ret == ScrapeReturn(r_nested, ErrorResult(TitleKeyError))
       IN  r_stage' = ret.stage /\ r_route' = ret.route /\ r_result' = ret.result
    /\ r_nested' = FALSE
    /\ r_content' = (IF r_nested THEN r_request.text_content ELSE r_content)
    /\ r_filename' = (IF r_nested THEN r_request.filename ELSE r_filename)
    /\ UNCHANGED <<r_endpoint, r_request, r_url, r_fetch, r_video_info, r_outcome,
                   r_analysis, r_synchronized, r_args, r_steps>>

\* extract_video_content: the content and the virtual filename are put together.
VideoContent ==
    /\ r_stage = "video_content"
    /\ "title" \in DOMAIN r_video_info
    /\ r_content' = CombinedVideoContent(r_video_info)
    /\ r_filename' = VideoFilename(r_video_info)
    /\ r_stage' = "analyze"
    /\ UNCHANGED <<r_endpoint, r_request, r_route, r_nested, r_url, r_fetch, r_video_info,
                   r_outcome, r_analysis, r_synchronized, r_args, r_steps, r_result>>

\* scrape_website: the fetch of the page raises; the except returns.
WebFetchFails ==
    /\ r_stage = "web_fetch"
    /\ \E fetch \in {f \in WebFetchOutcomes : f.kind = "raises"} :
          /\ r_fetch' = fetch
          /\ LET ret == ScrapeReturn(r_nested, ErrorResult(fetch.message))
             IN  r_stage' = ret.stage /\ r_route' = ret.route /\ r_result' = ret.result
    /\ r_nested' = FALSE
    /\ r_content' = (IF r_nested THEN r_request.text_content ELSE r_content)
    /\ r_filename' = (IF r_nested THEN r_request.filename ELSE r_filename)
    /\ r_steps' = Append(r_steps, "fetch")
    /\ UNCHANGED <<r_endpoint, r_request, r_url, r_video_info, r_outcome, r_analysis,
                   r_synchronized, r_args>>

\* scrape_website: the page is fetched and its content put together.
WebFetch ==
    /\ r_stage = "web_fetch"
    /\ \E fetch \in {f \in WebFetchOutcomes : f.kind = "ok"} :
          /\ r_fetch' = fetch
          /\ r_content' = CombinedWebContent(r_url, fetch.page)
    /\ r_filename' = WebFilename(r_url)
    /\ r_steps' = Append(r_steps, "fetch")
    /\ r_stage' = "analyze"
    /\ UNCHANGED <<r_endpoint, r_request, r_route, r_nested, r_url, r_video_info,
                   r_outcome, r_analysis, r_synchronized, r_args, r_result>>

\* A content of more than 50 characters goes to safe_analyze_with_openai;
\* it never raises, so the except around the call is never entered.
Analyze ==
    /\ r_stage = "analyze"
    /\ TLen(r_content) > MinAnalyzedChars
    /\ \E outcome \in AnalyzerOutcomes :
          /\ r_outcome' = outcome
          /\ r_analysis' = SafeAnalyzeWithOpenai(outcome, r_content, r_filename)
    /\ r_steps' = Append(r_steps, "safe_analyze_with_openai")
    /\ r_stage' = After(r_route, "analyze")
    /\ UNCHANGED <<r_endpoint, r_request, r_route, r_nested, r_url, r_fetch, r_video_info,
                   r_content, r_filename, r_synchronized, r_args, r_result>>

\* A shorter content is not sent: the web and the video route take the
\* basic analysis, the file route its own low-content analysis.
AnalyzeShort ==
    /\ r_stage = "analyze"
    /\ TLen(r_content) <= MinAnalyzedChars
    /\ r_outcome' = [kind |-> "not_called"]
    /\ r_analysis' = (IF r_route = "file" THEN LowContentAnalysis(r_filename)
                      ELSE CreateBasicAnalysis(r_content, r_filename))
    /\ r_steps' = (IF r_route = "file" THEN r_steps
                   ELSE Append(r_steps, "create_basic_analysis"))
    /\ r_stage' = After(r_route, "analyze")
    /\ UNCHANGED <<r_endpoint, r_request, r_route, r_nested, r_url, r_fetch, r_video_info,
                   r_content, r_filename, r_synchronized, r_args, r_result>>

\* The video route puts the video content in place of a generic content.
FixContent ==
    /\ r_stage = "fix_content"
    /\ r_analysis' = FixVideoContent(r_analysis, r_content)
    /\ r_stage' = After(r_route, "fix_content")
    /\ UNCHANGED <<r_endpoint, r_request, r_route, r_nested, r_url, r_fetch, r_video_info,
                   r_content, r_filename, r_outcome, r_synchronized, r_args, r_steps,
                   r_result>>

Synchronize2 ==
    /\ r_stage = "synchronize"
    /\ r_synchronized' \in SynchronizedData(r_analysis)
    /\ r_args' = [r_args EXCEPT !.synchronize = r_analysis]
    /\ r_steps' = Append(r_steps, "synchronize_graph_data")
    /\ r_stage' = After(r_route, "synchronize")
    /\ UNCHANGED <<r_endpoint, r_request, r_route, r_nested, r_url, r_fetch, r_video_info,
                   r_content, r_filename, r_outcome, r_analysis, r_result>>

\* The quality scorer is called when there is content.
Quality ==
    /\ r_stage = "quality"
    /\ r_steps' = (IF r_content # <<>> THEN Append(r_steps, "analyze_content_quality")
                   ELSE r_steps)
    /\ r_stage' = After(r_route, "quality")
    /\ UNCHANGED <<r_endpoint, r_request, r_route, r_nested, r_url, r_fetch, r_video_info,
                   r_content, r_filename, r_outcome, r_analysis, r_synchronized, r_args,
                   r_result>>

\* The validator is called when there is content: on ai_analysis in the
\* file route, on synchronized_data in the other two.
ValidateStage ==
    /\ r_stage = "validate"
    /\ IF r_content # <<>>
       THEN /\ r_args' = [r_args EXCEPT !.validate =
                            IF r_route = "file" THEN r_analysis ELSE r_synchronized]
            /\ r_steps' = Append(r_steps, "validate_extraction_accuracy")
       ELSE UNCHANGED <<r_args, r_steps>>
    /\ r_stage' = After(r_route, "validate")
    /\ UNCHANGED <<r_endpoint, r_request, r_route, r_nested, r_url, r_fetch, r_video_info,
                   r_content, r_filename, r_outcome, r_analysis, r_synchronized, r_result>>

StructureStage ==
    /\ r_stage = "structure"
    /\ r_steps' = Append(r_steps, "generate_document_structure")
    /\ r_stage' = After(r_route, "structure")
    /\ UNCHANGED <<r_endpoint, r_request, r_route, r_nested, r_url, r_fetch, r_video_info,
                   r_content, r_filename, r_outcome, r_analysis, r_synchronized, r_args,
                   r_result>>

\* extraction_depth of the success result: the counts are taken from
\* ai_analysis in the file route, from synchronized_data in the other two.
ExtractionDepth(route, analysis, synchronized_data) ==
    LET counted == IF route = "file" THEN analysis ELSE synchronized_data
    IN  [relationship_count |-> Len(Get(counted, "relationships", <<>>)),
         entity_count |-> Len(Get(counted, "entities", <<>>)),
         concept_count |-> Len(Get(counted, "concepts", <<>>))]

\* The success result is returned; analyze_document returns the success
\* result of the scrape_website it called.
Respond ==
    /\ r_stage = "respond"
    /\ r_result' = [returned |-> TRUE, status |-> "success",
                    analysis |-> r_synchronized, textLength |-> TLen(r_content),
                    extraction_depth |-> ExtractionDepth(r_route, r_analysis, r_synchronized)]
    /\ r_stage' = "done"
    /\ r_nested' = FALSE
    /\ UNCHANGED <<r_endpoint, r_request, r_route, r_url, r_fetch, r_video_info,
                   r_content, r_filename, r_outcome, r_analysis, r_synchronized, r_args,
                   r_steps>>

RoutesNext ==
    /\ \/ UploadReadFails
       \/ Upload
       \/ ScrapeMissingUrl
       \/ ScrapeResolve
       \/ VideoHandler
       \/ VideoContentKeyError
       \/ VideoContent
       \/ WebFetchFails
       \/ WebFetch
       \/ Analyze
       \/ AnalyzeShort
       \/ FixContent
       \/ Synchronize2
       \/ Quality
       \/ ValidateStage
       \/ StructureStage
       \/ Respond
    /\ UNCHANGED <<syncVars, qualVars, valVars, docVars, urlVars, pdfVars, fileVars, linkVars, handlerVars, improveVars, runVars>>

\* Every call of a route returns: the requests carry timeouts and the
\* handlers have no loop that waits.
SpecRoutes == RoutesInit /\ [][RoutesNext]_vars /\ WF_vars(RoutesNext)

\* a has the fixed shape of create_basic_analysis and its values for the
\* text and the filename (the video route may have put the video content in
\* place of the content).
IsBasicAnalysis(a, text_content, filename) ==
    /\ {"content", "concepts", "entities", "relationships", "confidence"} \subseteq DOMAIN a
    /\ \A k \in {"concepts", "entities", "relationships", "confidence"} :
          a[k] = CreateBasicAnalysis(text_content, filename)[k]

\* C13: for every way the analyzer call can fail, the analysis handed to the
\* synchronizer and to the validator, in the file, web and video routes, is
\* the fixed-shape result of create_basic_analysis.
C13_FailuresGiveBasicAnalysis ==
    (r_outcome # NoResult /\ AnalyzerFailed(r_outcome)) =>
        /\ r_args.synchronize # NoResult =>
              IsBasicAnalysis(r_args.synchronize, r_content, r_filename)
        /\ r_args.validate # NoResult =>
              IsBasicAnalysis(r_args.validate, r_content, r_filename)

HasNoUrl(request) ==
    \A k \in {"url", "website_url", "link"} : Get(request, k, <<>>) = <<>>

\* C14: every run of scrape_website, analyze_document and
\* extract_video_content ends by returning a result whose status is success,
\* error or partial; a scrape request without url, website_url and link
\* returns status error, and no fetch, analysis, synchronization, validation
\* or structuring step is performed for it.
C14_RunsEndWithStatus ==
    /\ [](r_result.returned => r_result.status \in {"success", "error", "partial"})
    /\ []((r_endpoint = "scrape_website" /\ HasNoUrl(r_request)) =>
            /\ r_steps = <<>>
            /\ r_result.returned => r_result.status = "error")
    /\ <>(r_result.returned)

\* A request without a url has been answered.
C14_Witness ==
    /\ r_endpoint = "scrape_website"
    /\ HasNoUrl(r_request)
    /\ r_result.returned
    /\ r_result.status = "error"

\* C15: in the video route, for each platform handler, when the fetch of the
\* watch page times out or fails, extract_video_content goes on through
\* analysis, synchronization, quality scoring, validation and structuring
\* (the scorer and the validator being called when there is content) and
\* returns a result that is not an error.
C15_VideoFetchFailureContinues ==
    (/\ r_route = "video"
     /\ r_fetch # NoResult
     /\ r_fetch.kind = "raises"
     /\ r_stage \notin {"video_handler", "video_content"}) =>
        /\ r_result.returned => r_result.status # "error"
        /\ r_stage = "done" =>
              /\ \E i \in 1..Len(r_steps) :
                    r_steps[i] \in {"safe_analyze_with_openai", "create_basic_analysis"}
              /\ \E i \in 1..Len(r_steps) : r_steps[i] = "synchronize_graph_data"
              /\ \E i \in 1..Len(r_steps) : r_steps[i] = "generate_document_structure"
              /\ r_content # <<>> =>
                    /\ \E i \in 1..Len(r_steps) : r_steps[i] = "analyze_content_quality"
                    /\ \E i \in 1..Len(r_steps) : r_steps[i] = "validate_extraction_accuracy"

\* The upload is a file whose extracted text is a single url, and the text
\* has been extracted.
UrlUploaded ==
    /\ r_endpoint = "analyze_document"
    /\ IsUrlText(r_request.text_content)
    /\ r_url # <<>>

\* C25 as stated: for an uploaded file whose extracted text is a single
\* url, the caller receives the result of the url route (web or video), not
\* a text analysis of the url string.
C25_UrlTextGetsUrlResult ==
    (UrlUploaded /\ r_result.returned) => r_route \in {"web", "video"}

\* C25 as amended: for an uploaded file whose extracted text is a single
\* url, analyze_document hands the stripped url to scrape_website; the caller
\* receives the result of the url route when its status is success, and the
\* text analysis of the url string, made by the file route, when the url
\* route ended in an error.
C25_UrlTextRedispatched ==
    /\ [][(/\ r_stage = "upload"
           /\ r_stage' # "done"
           /\ IsUrlText(r_request.text_content))
             => (/\ r_stage' = "scrape"
                 /\ r_nested'
                 /\ r_url' = TExpand(TStrip(r_request.text_content)))]_vars
    /\ []((UrlUploaded /\ r_result.returned) =>
            /\ r_result.status = "success"
            /\ r_route \in {"web", "video"} =>
                  \A i \in 1..Len(r_steps) : r_steps[i] # "fetch" \/ r_fetch.kind = "ok"
            /\ r_route \notin {"web", "video"} =>
                  /\ r_route = "file"
                  /\ r_content = r_request.text_content
                  /\ \/ r_fetch # NoResult /\ r_fetch.kind = "raises"
                     \/ "title" \notin DOMAIN r_video_info)

\* A file whose text is a url was uploaded, the url route failed, and the
\* caller has the text analysis of the url string.
C25_Witness ==
    /\ UrlUploaded
    /\ r_result.returned
    /\ r_route = "file"
    /\ r_result.status = "success"
    /\ r_fetch.kind = "raises"

\* C26: in every route the validator runs after the synchronizer and is
\* given the synchronizer's output.
C26_ValidatorTakesSynchronized ==
    r_args.validate # NoResult =>
        /\ r_args.synchronize # NoResult
        /\ r_args.validate = r_synchronized

\* C29: in every success response the counts of extraction_depth are the
\* lengths of the lists returned in the response.
C29_DepthCountsMatchLists ==
    (r_result.returned /\ r_result.status = "success") =>
        /\ r_result.extraction_depth.entity_count
              = Len(Get(r_result.analysis, "entities", <<>>))
        /\ r_result.extraction_depth.concept_count
              = Len(Get(r_result.analysis, "concepts", <<>>))
        /\ r_result.extraction_depth.relationship_count
              = Len(Get(r_result.analysis, "relationships", <<>>))

-----------------------------------------------------------------------------
(* File text: extract_text_from_file, improve_text_content and what
   analyze_document reports of the text *)

MaxCleanedChars == 20000
MinImprovedChars == 10
MaxPieces == 3

\* text.replace('\r\n', '\n').replace('\r', '\n'): of a run of "\r" that a
\* "\n" follows the last one goes with the "\n", every other becomes "\n".
NormalizeNewlines(t) ==
    MergeRuns([i \in 1..Len(t) |->
        IF t[i].c = "\r"
        THEN [c |-> "\n",
              n |-> IF i < Len(t) /\ t[i + 1].c = "\n" THEN t[i].n - 1 ELSE t[i].n]
        ELSE t[i]])

\* text.split('\n')
RECURSIVE SplitLinesFrom(_, _, _)
SplitLinesFrom(t, i, line) ==
    IF i > Len(t) THEN <<line>>
    ELSE IF t[i].c = "\n"
         THEN <<line>> \o [k \in 1..(t[i].n - 1) |-> <<>>] \o SplitLinesFrom(t, i + 1, <<>>)
         ELSE SplitLinesFrom(t, i + 1, Append(line, t[i]))
SplitLines(t) == SplitLinesFrom(t, 1, <<>>)

\* improve_text_content, the loop over the lines: a blank line is kept
\* unless a blank line precedes it, any other is stripped and its runs of
\* whitespace become one space.
RECURSIVE CleanLines(_, _)
CleanLines(lines, prev_empty) ==
    IF lines = <<>> THEN <<>>
    ELSE LET line_stripped == TStrip(Head(lines))
         IN  IF line_stripped = <<>>
             THEN (IF prev_empty THEN <<>> ELSE << <<>> >>) \o CleanLines(Tail(lines), TRUE)
             ELSE <<TJoin(Rep(" ", 1), TSplit(line_stripped))>>
                      \o CleanLines(Tail(lines), FALSE)

MaxShortLineChars == 50

\* improve_text_content, step 2: the markers a paragraph starts with
ParagraphMarkers ==
    {TextOf(m) : m \in {<<"U4E00", "U3001">>, <<"U4E8C", "U3001">>, <<"U4E09", "U3001">>,
                        <<"U56DB", "U3001">>, <<"U4E94", "U3001">>,
                        <<"1", ".">>, <<"2", ".">>, <<"3", ".">>, <<"4", ".">>, <<"5", ".">>,
                        <<"UFF08", "U4E00", "UFF09">>, <<"UFF08", "U4E8C", "UFF09">>,
                        <<"UFF08", "U4E09", "UFF09">>, <<"#">>}}

\* text.endswith(('。', '！', '？', '.', '!', '?'))
EndsSentence(text) == \E c \in SentenceTerminators : TEndsWith(text, Rep(c, 1))

\* improve_text_content, step 2: is_new_paragraph
IsNewParagraph(line) ==
    \/ \E m \in ParagraphMarkers : TStartsWith(line, m)
    \/ TLen(line) < MaxShortLineChars /\ ~EndsSentence(line)

\* improve_text_content, step 2, the loop over the lines: the lines of a
\* paragraph are joined by a space; a blank line ends the paragraph, a line
\* that is_new_paragraph starts the next one.
RECURSIVE OrganizeLines(_, _)
OrganizeLines(lines, current_paragraph) ==
    LET flushed == IF current_paragraph # <<>>
                   THEN <<TJoin(Rep(" ", 1), current_paragraph)>> ELSE <<>>
    IN  IF lines = <<>> THEN flushed
        ELSE LET line == TStrip(Head(lines))
             IN  IF line = <<>> THEN flushed \o OrganizeLines(Tail(lines), <<>>)
                 ELSE IF IsNewParagraph(line) /\ current_paragraph # <<>>
                      THEN flushed \o OrganizeLines(Tail(lines), <<line>>)
                      ELSE OrganizeLines(Tail(lines), Append(current_paragraph, line))

\* quality_metrics.get(key, 1.0) < 0.5
MetricIsLow(quality_metrics, key) == FLt(Get(quality_metrics, key, FOne), Frac(1, 2))

\* improve_text_content(text, quality_metrics): the cut at the cap, step 1
\* (the cleaning of the lines), step 2 if structure_integrity is low, step 3
\* if completeness_score is low, and the final strip.
ImproveTextContentWith(text, quality_metrics) ==
    IF text = <<>> THEN text
    ELSE LET cut == IF TLen(text) > MaxCleanedChars THEN TTake(text, MaxCleanedChars) ELSE text
             cleaned == JoinLines(CleanLines(SplitLines(NormalizeNewlines(cut)), FALSE))
             organized ==
                 IF MetricIsLow(quality_metrics, "structure_integrity")
                 THEN TJoin(Rep("\n", 2), OrganizeLines(SplitLines(cleaned), <<>>))
                 ELSE cleaned
             completed ==
                 IF /\ MetricIsLow(quality_metrics, "completeness_score")
                    /\ organized # <<>>
                    /\ ~EndsSentence(TRStrip(organized))
                 THEN TCat(organized, Rep(".", 3))
                 ELSE organized
         IN  TStrip(completed)

\* improve_text_content(text, {"overall_score": 0.8}): the metrics have
\* neither structure_integrity nor completeness_score, so the paragraph and
\* the completion steps are skipped.
ImproveTextContent(text) == ImproveTextContentWith(text, [overall_score |-> Frac(8, 10)])

\* extract_text_from_file, from the text the extractor returned on
ExtractedText(text) ==
    IF text # <<>> /\ TLen(text) > MinImprovedChars THEN ImproveTextContent(text) ELSE text

\* The uploaded files: their text is one to MaxPieces pieces put end to end,
\* or one url, or empty.
FilePieces ==
    {Rep("x", MaxCleanedChars + 1), Rep("x", 4), Rep(" ", 2), TextOf(<<"\r", "\n">>),
     Rep("\n", 3), TextOf(<<"a", " ", "b">>)}
FileUrlText == TextOf(<<"h", "t", "t", "p", "s", ":", "/", "/", "e", "x", "a", "m", "p", "l", "e", ".", "c", "o", "m", "/", "a", "b", "o", "u", "t">>)
FileTexts ==
    {TCatAll(pieces) : pieces \in UNION {[1..k -> FilePieces] : k \in 1..MaxPieces}}
    \cup {FileUrlText, <<>>}

FileInit ==
    /\ f_raw \in FileTexts
    /\ f_text = <<>>
    /\ f_stage = "extract"
    /\ f_report = NoResult
    /\ ai_analysis = NoResult /\ sync_input = NoResult
    /\ sync_first = NoResult /\ sync_calls = 0
    /\ q_text = <<>> /\ q_metrics = NoResult
    /\ v_analysis = NoResult /\ v_text = <<>> /\ v_result = NoResult
    /\ d_text = <<>> /\ d_filename = <<>> /\ d_structure = NoResult
    /\ u_url = <<>> /\ u_is_video = NoResult
    /\ r_endpoint = "none" /\ r_request = NoResult /\ r_route = "none" /\ r_stage = "idle" /\ r_nested = FALSE /\ r_url = <<>> /\ r_fetch = NoResult /\ r_video_info = NoResult /\ r_content = <<>> /\ r_filename = <<>> /\ r_outcome = NoResult /\ r_analysis = NoResult /\ r_synchronized = NoResult /\ r_args = [synchronize |-> NoResult, validate |-> NoResult] /\ r_steps = <<>> /\ r_result = NoResult
    /\ p_content = NoResult /\ p_page_num = 0 /\ p_stats = NoResult
    /\ p_text = <<>> /\ p_result = NoResult
    /\ l_base = <<>> /\ l_anchors = <<>> /\ l_max_pages = 0 /\ l_links = NoResult
    /\ h_url = <<>> /\ h_fetch = NoResult /\ h_info = NoResult /\ h_content = NoResult
    /\ i_text = <<>> /\ i_metrics = NoResult /\ i_once = NoResult /\ i_twice = NoResult
    /\ x_input = NoResult /\ x_hash_order = <<>> /\ x_runs = <<>>

\* analyze_document: text_content = extract_text_from_file(content, filename)
ExtractTextFromFile ==
    /\ f_stage = "extract"
    /\ f_text' = ExtractedText(f_raw)
    /\ f_stage' = "extracted"
    /\ UNCHANGED <<f_raw, f_report>>

\* analyze_document: the text is one url and scrape_website succeeds with
\* it: the scrape result is returned as it is.
FileUrlScraped ==
    /\ f_stage = "extracted"
    /\ IsUrlText(f_text)
    /\ f_stage' = "done"
    /\ f_report' = [scraped |-> TRUE]
    /\ UNCHANGED <<f_raw, f_text>>

\* analyze_document: the success result, for a text that is no url or whose
\* scrape did not succeed: fileInfo.textLength, document.char_count and
\* document.full_content.
FileReport ==
    /\ f_stage = "extracted"
    /\ f_stage' = "done"
    /\ f_report' = [scraped |-> FALSE,
                    textLength |-> TLen(f_text),
                    char_count |-> IF f_text # <<>> THEN TLen(f_text) ELSE 0,
                    full_content |-> f_text]
    /\ UNCHANGED <<f_raw, f_text>>

FileNext == (ExtractTextFromFile \/ FileUrlScraped \/ FileReport) /\ UNCHANGED <<syncVars, qualVars, valVars, docVars, urlVars, pdfVars, routeVars, linkVars, handlerVars, improveVars, runVars>>

SpecFile == FileInit /\ [][FileNext]_vars

\* C20: for an uploaded file whose extracted text is longer than the
\* cleaner's cap of 20,000 characters, the textLength, the char_count and
\* the full_content that analyze_document reports are those of the full
\* extracted text.
C20_ReportsFullText ==
    (f_stage = "done" /\ ~f_report.scraped /\ TLen(f_raw) > MaxCleanedChars) =>
        /\ f_report.textLength = TLen(f_raw)
        /\ f_report.char_count = TLen(f_raw)
        /\ f_report.full_content = f_raw

-----------------------------------------------------------------------------
(* Sub-page discovery: discover_important_subpages.  The page is the list  *)
(* of its anchors, [href, text, title], as BeautifulSoup gives them.  The  *)
(* functions urlparse and urljoin of urllib.parse are worked out on the    *)
(* characters of the url.                                                  *)

MaxDiscoveredPages == 50
PageFactor == 2
MaxLinkTextChars == 100
MaxLinkTitleChars == 50
MinLinkTextChars == 3
MaxRequestedPages == 2
MaxAnchors == 3

SchemeChars == Range(LowerLetters) \cup UpperChars \cup DigitChars \cup {"+", "-", "."}

\* urlsplit: the scheme is what precedes the first ":", when it begins with
\* a letter and is made of scheme characters; the netloc follows "//" and
\* ends at the first "/", "?" or "#"; then the fragment and the query are
\* cut off the rest.
UrlParse(url) ==
    LET colon == Find(url, ":") + 1
        has_scheme == /\ colon > 1
                      /\ url[1] \in Range(LowerLetters) \cup UpperChars
                      /\ \A i \in 1..(colon - 1) : url[i] \in SchemeChars
        scheme == IF has_scheme THEN Lower(SubSeq(url, 1, colon - 1)) ELSE <<>>
        rest == IF has_scheme THEN SubSeq(url, colon + 1, Len(url)) ELSE url
        has_netloc == StartsWith(rest, <<"/", "/">>)
        netloc_end == IF has_netloc THEN FirstIndexIn(rest, {"/", "?", "#"}, 3) ELSE 1
        netloc == IF has_netloc THEN SubSeq(rest, 3, netloc_end - 1) ELSE <<>>
        tail == SubSeq(rest, netloc_end, Len(rest))
        hash == FirstIndexIn(tail, {"#"}, 1)
        fragment == SubSeq(tail, hash + 1, Len(tail))
        before == SubSeq(tail, 1, hash - 1)
        mark == FirstIndexIn(before, {"?"}, 1)
    IN  [scheme |-> scheme, netloc |-> netloc, path |-> SubSeq(before, 1, mark - 1),
         query |-> SubSeq(before, mark + 1, Len(before)), fragment |-> fragment]

\* urlunsplit
UrlUnparse(p) ==
    LET rooted == IF p.path # <<>> /\ p.path[1] # "/" THEN <<"/">> \o p.path ELSE p.path
        located == IF p.netloc # <<>> \/ (p.scheme \in {<<"h", "t", "t", "p">>, <<"h", "t", "t", "p", "s">>}
                                           /\ ~StartsWith(p.path, <<"/", "/">>))
                   THEN <<"/", "/">> \o p.netloc \o rooted
                   ELSE p.path
    IN  (IF p.scheme # <<>> THEN p.scheme \o <<":">> ELSE <<>>)
        \o located
        \o (IF p.query # <<>> THEN <<"?">> \o p.query ELSE <<>>)
        \o (IF p.fragment # <<>> THEN <<"#">> \o p.fragment ELSE <<>>)

\* The schemes urljoin resolves against a base, of those the anchors use.
UsesRelative == {<<"h", "t", "t", "p">>, <<"h", "t", "t", "p", "s">>, <<"f", "t", "p">>, <<>>}
UsesNetloc == UsesRelative

IsSegment(seg) == seg # <<>>

\* urljoin, the loop over the segments: ".." drops the segment before it,
\* "." is dropped.
RECURSIVE ResolveSegments(_, _)
ResolveSegments(segments, resolved_path) ==
    IF segments = <<>> THEN resolved_path
    ELSE IF Head(segments) = <<".", ".">>
         THEN ResolveSegments(Tail(segments),
                              SubSeq(resolved_path, 1, Len(resolved_path) - 1))
    ELSE IF Head(segments) = <<".">> THEN ResolveSegments(Tail(segments), resolved_path)
    ELSE ResolveSegments(Tail(segments), Append(resolved_path, Head(segments)))

\* urljoin, for a base and a url that are parsed: b and u.
UrlJoinParsed(b, raw, url) ==
    LET u == IF raw.scheme = <<>> THEN [raw EXCEPT !.scheme = b.scheme] ELSE raw
    IN  IF u.scheme # b.scheme \/ u.scheme \notin UsesRelative THEN url
        ELSE IF u.scheme \in UsesNetloc /\ u.netloc # <<>> THEN UrlUnparse(u)
        ELSE
        LET netloc == IF u.scheme \in UsesNetloc THEN b.netloc ELSE u.netloc
        IN  IF u.path = <<>>
            THEN UrlUnparse([u EXCEPT !.netloc = netloc, !.path = b.path,
                                      !.query = IF u.query = <<>> THEN b.query ELSE u.query])
            ELSE
            LET all_base == SplitOn(b.path, "/")
                base_parts == IF all_base[Len(all_base)] # <<>>
                              THEN SubSeq(all_base, 1, Len(all_base) - 1) ELSE all_base
                joined == base_parts \o SplitOn(u.path, "/")
                segments ==
                    IF u.path[1] = "/" THEN SplitOn(u.path, "/")
                    ELSE IF Len(joined) <= 2 THEN joined
                    ELSE <<joined[1]>>
                            \o SelectSeq(SubSeq(joined, 2, Len(joined) - 1), IsSegment)
                            \o <<joined[Len(joined)]>>
                resolved == ResolveSegments(segments, <<>>)
                resolved_path ==
                    IF segments[Len(segments)] \in {<<".">>, <<".", ".">>}
                    THEN Append(resolved, <<>>) ELSE resolved
                path == Join(<<"/">>, resolved_path)
            IN  UrlUnparse([u EXCEPT !.netloc = netloc,
                                     !.path = IF path = <<>> THEN <<"/">> ELSE path])

\* urljoin(base, url)
\* (the two urls are parsed once, then joined)
UrlJoin(base, url) ==
    IF base = <<>> THEN url
    ELSE IF url = <<>> THEN base
    ELSE CHOOSE joined \in {UrlJoinParsed(b, u, url) : b \in {UrlParse(base)}, u \in {UrlParse(url)}} : TRUE

\* important_keywords and chinese_keywords, by priority; general_patterns
EnglishHigh ==
    <<<<"a", "b", "o", "u", "t">>, <<"d", "o", "c", "u", "m", "e", "n", "t", "a", "t", "i", "o", "n">>, <<"d", "o", "c", "s">>, <<"a", "p", "i">>,
      <<"g", "u", "i", "d", "e">>, <<"t", "u", "t", "o", "r", "i", "a", "l">>, <<"g", "e", "t", "t", "i", "n", "g", "-", "s", "t", "a", "r", "t", "e", "d">>, <<"o", "v", "e", "r", "v", "i", "e", "w">>,
      <<"i", "n", "t", "r", "o", "d", "u", "c", "t", "i", "o", "n">>, <<"r", "e", "a", "d", "m", "e">>, <<"f", "e", "a", "t", "u", "r", "e", "s">>, <<"p", "r", "o", "d", "u", "c", "t">>,
      <<"s", "e", "r", "v", "i", "c", "e">>, <<"h", "o", "m", "e">>, <<"m", "a", "i", "n">>, <<"i", "n", "d", "e", "x">>,
      <<"d", "a", "s", "h", "b", "o", "a", "r", "d">>, <<"p", "r", "o", "f", "i", "l", "e">>, <<"s", "e", "t", "t", "i", "n", "g", "s">>, <<"c", "o", "n", "f", "i", "g">>>>
EnglishMedium ==
    <<<<"h", "e", "l", "p">>, <<"s", "u", "p", "p", "o", "r", "t">>, <<"f", "a", "q">>, <<"p", "r", "i", "c", "i", "n", "g">>,
      <<"c", "o", "n", "t", "a", "c", "t">>, <<"t", "e", "a", "m">>, <<"n", "e", "w", "s">>, <<"b", "l", "o", "g">>,
      <<"d", "o", "w", "n", "l", "o", "a", "d">>, <<"i", "n", "s", "t", "a", "l", "l">>, <<"s", "e", "t", "u", "p">>, <<"e", "x", "a", "m", "p", "l", "e">>,
      <<"d", "e", "m", "o">>, <<"l", "e", "a", "r", "n">>, <<"c", "o", "u", "r", "s", "e">>, <<"p", "r", "o", "j", "e", "c", "t">>,
      <<"w", "o", "r", "k">>, <<"p", "o", "r", "t", "f", "o", "l", "i", "o">>, <<"g", "a", "l", "l", "e", "r", "y">>, <<"m", "e", "d", "i", "a">>,
      <<"v", "i", "d", "e", "o">>, <<"i", "m", "a", "g", "e">>>>
EnglishLow ==
    <<<<"r", "e", "s", "o", "u", "r", "c", "e", "s">>, <<"c", "o", "m", "m", "u", "n", "i", "t", "y">>, <<"f", "o", "r", "u", "m">>, <<"w", "i", "k", "i">>,
      <<"c", "h", "a", "n", "g", "e", "l", "o", "g">>, <<"h", "i", "s", "t", "o", "r", "y">>, <<"a", "r", "c", "h", "i", "v", "e">>, <<"s", "e", "a", "r", "c", "h">>,
      <<"t", "a", "g">>, <<"c", "a", "t", "e", "g", "o", "r", "y">>, <<"t", "o", "p", "i", "c">>, <<"t", "h", "r", "e", "a", "d">>,
      <<"p", "o", "s", "t">>, <<"a", "r", "t", "i", "c", "l", "e">>, <<"s", "t", "o", "r", "y">>, <<"e", "v", "e", "n", "t">>,
      <<"c", "a", "l", "e", "n", "d", "a", "r">>, <<"s", "c", "h", "e", "d", "u", "l", "e">>, <<"t", "o", "o", "l">>, <<"u", "t", "i", "l", "i", "t", "y">>>>
ChineseHigh ==
    <<<<"U5173", "U4E8E">>, <<"U6587", "U6863">>, <<"U4ECB", "U7ECD">>, <<"U8BF4", "U660E">>,
      <<"U6307", "U5357">>, <<"U6559", "U7A0B">>, <<"U4EA7", "U54C1">>, <<"U670D", "U52A1">>,
      <<"U529F", "U80FD">>, <<"U9996", "U9875">>, <<"U4E3B", "U9875">>, <<"U6982", "U89C8">>,
      <<"U7279", "U6027">>, <<"U7279", "U8272">>, <<"U4F18", "U52BF">>, <<"U89E3", "U51B3", "U65B9", "U6848">>,
      <<"U65B9", "U6848">>>>
ChineseMedium ==
    <<<<"U5E2E", "U52A9">>, <<"U652F", "U6301">>, <<"U8054", "U7CFB">>, <<"U56E2", "U961F">>,
      <<"U65B0", "U95FB">>, <<"U535A", "U5BA2">>, <<"U4E0B", "U8F7D">>, <<"U5B89", "U88C5">>,
      <<"U914D", "U7F6E">>, <<"U793A", "U4F8B">>, <<"U6848", "U4F8B">>, <<"U9879", "U76EE">>,
      <<"U4F5C", "U54C1">>, <<"U5C55", "U793A">>, <<"U6F14", "U793A">>, <<"U5B66", "U4E60">>,
      <<"U8BFE", "U7A0B">>, <<"U57F9", "U8BAD">>, <<"U8D44", "U6599">>>>
ChineseLow ==
    <<<<"U8D44", "U6E90">>, <<"U793E", "U533A">>, <<"U8BBA", "U575B">>, <<"U767E", "U79D1">>,
      <<"U66F4", "U65B0", "U65E5", "U5FD7">>, <<"U5386", "U53F2">>, <<"U5F52", "U6863">>, <<"U641C", "U7D22">>,
      <<"U6807", "U7B7E">>, <<"U5206", "U7C7B">>, <<"U8BDD", "U9898">>, <<"U8BA8", "U8BBA">>,
      <<"U6587", "U7AE0">>, <<"U6545", "U4E8B">>, <<"U6D3B", "U52A8">>, <<"U65E5", "U7A0B">>,
      <<"U5DE5", "U5177">>, <<"U5E94", "U7528">>>>
GeneralPatterns ==
    <<<<"d", "e", "t", "a", "i", "l">>, <<"i", "n", "f", "o">>, <<"m", "o", "r", "e">>, <<"v", "i", "e", "w">>,
      <<"s", "h", "o", "w">>, <<"d", "i", "s", "p", "l", "a", "y">>, <<"l", "i", "s", "t">>, <<"p", "a", "g", "e">>,
      <<"U8BE6", "U7EC6">>, <<"U8BE6", "U60C5">>, <<"U66F4", "U591A">>, <<"U67E5", "U770B">>,
      <<"U663E", "U793A">>, <<"U5217", "U8868">>, <<"U9875", "U9762">>>>
AllImportantKeywords ==
    EnglishHigh \o ChineseHigh \o EnglishMedium \o ChineseMedium \o EnglishLow \o ChineseLow
        \o GeneralPatterns
SkipPatterns ==
    <<<<"j", "a", "v", "a", "s", "c", "r", "i", "p", "t", ":">>, <<"m", "a", "i", "l", "t", "o", ":">>, <<"t", "e", "l", ":">>, <<"f", "t", "p", ":">>,
      <<"#", "t", "o", "p">>, <<"#", "b", "o", "t", "t", "o", "m">>, <<"v", "o", "i", "d", "(", "0", ")">>>>
SpecialPatterns ==
    <<<<"/", "d", "o", "c">>, <<"/", "a", "p", "i">>, <<"/", "g", "u", "i", "d", "e">>, <<"/", "h", "e", "l", "p">>,
      <<"/", "a", "b", "o", "u", "t">>, <<"/", "b", "l", "o", "g">>, <<"/", "n", "e", "w", "s">>, <<"/", "p", "r", "o", "j", "e", "c", "t">>,
      <<"/", "w", "o", "r", "k">>>>
ChinesePatterns ==
    <<<<"U5173", "U4E8E">>, <<"U6587", "U6863">>, <<"U5E2E", "U52A9">>, <<"U4EA7", "U54C1">>,
      <<"U670D", "U52A1">>, <<"U65B0", "U95FB">>, <<"U535A", "U5BA2">>, <<"U9879", "U76EE">>,
      <<"U4F5C", "U54C1">>>>
UsefulExtensions ==
    <<<<".", "h", "t", "m", "l">>, <<".", "h", "t", "m">>, <<".", "p", "h", "p">>, <<".", "a", "s", "p">>,
      <<".", "j", "s", "p">>, <<".", "p", "y">>, <<".", "m", "d">>, <<".", "t", "x", "t">>,
      <<".", "p", "d", "f">>>>

\* s.strip('/')
RECURSIVE StripSlashes(_)
StripSlashes(s) ==
    IF s = <<>> THEN s
    ELSE IF Head(s) = "/" THEN StripSlashes(Tail(s))
    ELSE IF s[Len(s)] = "/" THEN StripSlashes(SubSeq(s, 1, Len(s) - 1))
    ELSE s

\* The points of one keyword: 3 for a high one, 2 for a medium one, 1 for any other.
HighKeywords == Range(EnglishHigh) \cup Range(ChineseHigh)
MediumKeywords == Range(EnglishMedium) \cup Range(ChineseMedium)
KeywordPoints(keyword) ==
    IF keyword \in HighKeywords THEN 3
    ELSE IF keyword \in MediumKeywords THEN 2
    ELSE 1

\* discover_important_subpages: the url an anchor is resolved to, or <<>>
\* for an anchor that is passed over before the scoring.
ResolvedUrl(base_url, href) ==
    LET base_domain == UrlParse(base_url).netloc
        base_path == UrlParse(base_url).path
        full_url ==
            IF StartsWith(href, <<"h", "t", "t", "p">>)
            THEN (IF UrlParse(href).netloc # base_domain THEN <<>> ELSE href)
            ELSE IF StartsWith(href, <<"/">>) THEN UrlJoin(base_url, href)
            ELSE IF StartsWith(href, <<".", "/">>) \/ ~StartsWith(href, <<"#">>)
                 THEN UrlJoin(base_url, href)
            ELSE <<>>
    IN  IF href = <<>> \/ full_url = <<>> THEN <<>>
        ELSE IF \E i \in 1..Len(SkipPatterns) : IsSubstr(SkipPatterns[i], Lower(href)) THEN <<>>
        ELSE IF href = <<"/">> \/ href = base_path \/ full_url = base_url THEN <<>>
        ELSE full_url

\* discover_important_subpages: the importance score of a resolved anchor,
\* from the path of the base url, the lowered path and query of the anchor's
\* url, whether that url has a "?", and the lowered text and title.
ImportanceScoreOf(base_path, url_path, url_params, has_query, link_text, link_title) ==
    LET found(keyword) ==
            \/ IsSubstr(keyword, url_path) \/ IsSubstr(keyword, link_text)
            \/ IsSubstr(keyword, link_title) \/ IsSubstr(keyword, url_params)
        matched(points) ==
            {i \in 1..Len(AllImportantKeywords) :
                /\ KeywordPoints(AllImportantKeywords[i]) = points
                /\ found(AllImportantKeywords[i])}
        score ==
            (IF Len(SplitOn(StripSlashes(url_path), "/")) > Len(SplitOn(StripSlashes(base_path), "/"))
             THEN 1 ELSE 0)
            + 3 * Cardinality(matched(3)) + 2 * Cardinality(matched(2)) + Cardinality(matched(1))
            + (IF \E i \in 1..Len(SpecialPatterns) : IsSubstr(SpecialPatterns[i], url_path)
               THEN 2 ELSE 0)
            + (IF \E i \in 1..Len(ChinesePatterns) : IsSubstr(ChinesePatterns[i], url_path)
               THEN 2 ELSE 0)
            + (IF \E i \in 1..Len(UsefulExtensions) : EndsWith(url_path, UsefulExtensions[i])
               THEN 1 ELSE 0)
            + (IF Len(link_text) > MinLinkTextChars /\ Len(link_text) < MaxLinkTextChars
               THEN 1 ELSE 0)
            + (IF (\E i \in 1..Len(url_path) : url_path[i] \in DigitChars)
                   /\ IsSubstr(<<"p", "a", "g", "e">>, url_path)
               THEN 1 ELSE 0)
    IN  IF score = 0 /\ (Len(StripSlashes(url_path)) > Len(StripSlashes(base_path)) \/ has_query)
        THEN 1 ELSE score

\* (the parts of the urls are worked out once, then scored)
ImportanceScore(base_url, full_url, link_text, link_title) ==
    CHOOSE score \in
        {ImportanceScoreOf(base.path, Lower(full.path), Lower(full.query),
                           Contains(full_url, "?"), text, title) :
            base \in {UrlParse(base_url)}, full \in {UrlParse(full_url)},
            text \in {link_text}, title \in {link_title}} : TRUE

\* discover_important_subpages: the link of an anchor that is resolved to
\* full_url, with score 0 for an anchor that is passed over.
LinkOf(base_url, anchor, href, text, full_url) ==
    LET parts == SplitOn(href, "/")
    IN  IF full_url = <<>> THEN [url |-> <<>>, importance_score |-> 0]
        ELSE [url |-> full_url,
              text |-> IF text # <<>> THEN Take(text, MaxLinkTextChars) ELSE parts[Len(parts)],
              importance_score |->
                  ImportanceScore(base_url, full_url, Lower(text), Lower(anchor.title)),
              path |-> Lower(UrlParse(full_url).path),
              title |-> Take(Lower(anchor.title), MaxLinkTitleChars)]

\* (the url is resolved once)
DiscoveredLink(base_url, anchor) ==
    CHOOSE link \in
        {LinkOf(base_url, anchor, Strip(anchor.href), Strip(anchor.text), full_url) :
            full_url \in {ResolvedUrl(base_url, Strip(anchor.href))}} : TRUE

HasScore(link) == link.importance_score > 0

\* sorted(discovered_links, key=importance_score, reverse=True): the links
\* of higher score first, those of one score in the order found.
ByScore(links) ==
    SortedByKeys(links, [i \in 1..Len(links) |-> <<0 - links[i].importance_score, i>>])

\* discover_important_subpages, the last loop: a link is kept when its url
\* was not kept before and fewer than limit links are kept.
RECURSIVE UniqueLinks(_, _, _)
UniqueLinks(links, unique_links, limit) ==
    IF links = <<>> THEN unique_links
    ELSE IF (\A i \in 1..Len(unique_links) : unique_links[i].url # Head(links).url)
              /\ Len(unique_links) < limit
         THEN UniqueLinks(Tail(links), Append(unique_links, Head(links)), limit)
         ELSE UniqueLinks(Tail(links), unique_links, limit)

\* max_pages = min(max_pages * 2, 50), with the requested number kept as it is
PageLimitAsRequested(max_pages) == Min(max_pages, MaxDiscoveredPages)

\* max_pages = min(max_pages * 2, 50)
PageLimit(max_pages) == Min(max_pages * PageFactor, MaxDiscoveredPages)

\* discover_important_subpages(base_url, soup, max_pages)
DiscoverImportantSubpages(base_url, anchors, max_pages) ==
    LET discovered_links ==
            SelectSeq([i \in 1..Len(anchors) |-> DiscoveredLink(base_url, anchors[i])], HasScore)
    IN  UniqueLinks(ByScore(discovered_links), <<>>, PageLimit(max_pages))

\* The pages: the anchors of a page are at most MaxAnchors of these, in this order.
PageAnchors ==
    <<[href |-> <<"/", "/", "e", "v", "i", "l", ".", "c", "o", "m", "/", "d", "o", "c", "s">>, text |-> <<"D", "o", "c", "s">>, title |-> <<>>],
      [href |-> <<"/", "d", "o", "c", "s">>, text |-> <<"D", "o", "c", "u", "m", "e", "n", "t", "a", "t", "i", "o", "n">>, title |-> <<>>],
      [href |-> <<"g", "u", "i", "d", "e">>, text |-> <<"G", "u", "i", "d", "e">>, title |-> <<"U", "s", "e", "r", " ", "g", "u", "i", "d", "e">>],
      [href |-> <<".", "/", "g", "u", "i", "d", "e">>, text |-> <<"x">>, title |-> <<>>],
      [href |-> <<"#", "t", "o", "p">>, text |-> <<"B", "a", "c", "k", " ", "t", "o", " ", "t", "o", "p">>, title |-> <<>>],
      [href |-> <<"/", "#", "i", "n", "t", "r", "o">>, text |-> <<"I", "n", "t", "r", "o", "d", "u", "c", "t", "i", "o", "n">>, title |-> <<>>],
      [href |-> <<"m", "a", "i", "l", "t", "o", ":", "a", "@", "b", ".", "c">>, text |-> <<"C", "o", "n", "t", "a", "c", "t">>, title |-> <<>>],
      [href |-> <<"h", "t", "t", "p", "s", ":", "/", "/", "e", "x", "a", "m", "p", "l", "e", ".", "c", "o", "m", "/", "d", "o", "c", "s", "/">>, text |-> <<"D", "o", "c", "s">>, title |-> <<>>],
      [href |-> <<"h", "t", "t", "p", "s", ":", "/", "/", "o", "t", "h", "e", "r", ".", "c", "o", "m", "/", "a", "p", "i">>, text |-> <<"A", "P", "I">>, title |-> <<>>],
      [href |-> <<"?", "p", "a", "g", "e", "=", "2">>, text |-> <<"N", "e", "x", "t">>, title |-> <<>>],
      [href |-> <<".", ".", "/", "a", "b", "o", "u", "t">>, text |-> <<"A", "b", "o", "u", "t", " ", "u", "s">>, title |-> <<>>]>>
AnchorSelections == {s \in SUBSET (1..Len(PageAnchors)) : Cardinality(s) <= MaxAnchors}
SelectedAnchors(selection) ==
    LET Chosen(i) == i \in selection
        picked == SelectSeq([i \in 1..Len(PageAnchors) |-> i], Chosen)
    IN  [k \in 1..Len(picked) |-> PageAnchors[picked[k]]]
BaseUrls == {<<"h", "t", "t", "p", "s", ":", "/", "/", "e", "x", "a", "m", "p", "l", "e", ".", "c", "o", "m", "/">>, <<"h", "t", "t", "p", "s", ":", "/", "/", "e", "x", "a", "m", "p", "l", "e", ".", "c", "o", "m", "/", "d", "o", "c", "s", "/">>}

LinksInit ==
    /\ l_base \in BaseUrls
    /\ l_anchors \in {SelectedAnchors(s) : s \in AnchorSelections}
    /\ l_max_pages \in 1..MaxRequestedPages
    /\ l_links = NoResult
    /\ ai_analysis = NoResult /\ sync_input = NoResult
    /\ sync_first = NoResult /\ sync_calls = 0
    /\ q_text = <<>> /\ q_metrics = NoResult
    /\ v_analysis = NoResult /\ v_text = <<>> /\ v_result = NoResult
    /\ d_text = <<>> /\ d_filename = <<>> /\ d_structure = NoResult
    /\ u_url = <<>> /\ u_is_video = NoResult
    /\ r_endpoint = "none" /\ r_request = NoResult /\ r_route = "none" /\ r_stage = "idle" /\ r_nested = FALSE /\ r_url = <<>> /\ r_fetch = NoResult /\ r_video_info = NoResult /\ r_content = <<>> /\ r_filename = <<>> /\ r_outcome = NoResult /\ r_analysis = NoResult /\ r_synchronized = NoResult /\ r_args = [synchronize |-> NoResult, validate |-> NoResult] /\ r_steps = <<>> /\ r_result = NoResult
    /\ p_content = NoResult /\ p_page_num = 0 /\ p_stats = NoResult
    /\ p_text = <<>> /\ p_result = NoResult
    /\ f_raw = <<>> /\ f_text = <<>> /\ f_stage = "idle" /\ f_report = NoResult
    /\ h_url = <<>> /\ h_fetch = NoResult /\ h_info = NoResult /\ h_content = NoResult
    /\ i_text = <<>> /\ i_metrics = NoResult /\ i_once = NoResult /\ i_twice = NoResult
    /\ x_input = NoResult /\ x_hash_order = <<>> /\ x_runs = <<>>

\* One call of discover_important_subpages.
Discover ==
    /\ ~l_links.returned
    /\ l_links' = [returned |-> TRUE,
                   links |-> DiscoverImportantSubpages(l_base, l_anchors, l_max_pages)]
    /\ UNCHANGED <<l_base, l_anchors, l_max_pages>>

LinksNext == Discover /\ UNCHANGED <<syncVars, qualVars, valVars, docVars, urlVars, pdfVars, routeVars, fileVars, handlerVars, improveVars, runVars>>

SpecLinks == LinksInit /\ [][LinksNext]_vars

NonHttpSchemes ==
    {<<"m", "a", "i", "l", "t", "o">>, <<"j", "a", "v", "a", "s", "c", "r", "i", "p", "t">>,
     <<"t", "e", "l">>, <<"f", "t", "p">>}

\* C21: each link returned has the host of the base url, is not a fragment
\* link into the page itself, does not use a non-HTTP scheme (mailto,
\* javascript, tel, ftp) and is not the base url.
C21_LinksStayOnSite ==
    l_links.returned =>
        \A i \in 1..Len(l_links.links) :
            LET link == UrlParse(l_links.links[i].url)
                base == UrlParse(l_base)
            IN  /\ link.netloc = base.netloc
                /\ ~(link.fragment # <<>> /\ [link EXCEPT !.fragment = <<>>] = base)
                /\ link.scheme \notin NonHttpSchemes
                /\ l_links.links[i].url # l_base

\* C22: at most max_pages links are returned.
C22_AtMostMaxPages ==
    l_links.returned => Len(l_links.links) <= l_max_pages

-----------------------------------------------------------------------------
(* The platform handlers of extract_video_content, one call each: the      *)
(* handler takes the fresh video_info and returns the record; then the     *)
(* combined content is put together from it.                               *)

\* The pages: every choice of what is found, field by field.
HandlerPages ==
    [title : {<<>>, RichVideoPage.title},
     uploader : {<<>>, RichVideoPage.uploader},
     description : {<<>>, Rep("d", MinBilibiliDescriptionChars + 5), RichVideoPage.description},
     view_count : {<<>>, RichVideoPage.view_count},
     duration : {<<>>, RichVideoPage.duration},
     upload_date : {<<>>, RichVideoPage.upload_date},
     transcript : {<<>>, Rep("t", MinTranscriptChars), RichVideoPage.transcript}]
HandlerFetchOutcomes ==
    {[kind |-> "ok", page |-> p] : p \in HandlerPages}
    \cup {[kind |-> "raises", message |-> m] : m \in FetchErrors}
HandlerUrls == {u \in RequestUrls : IsVideoUrl(u)}

HandlersInit ==
    /\ h_url \in HandlerUrls
    /\ h_fetch \in HandlerFetchOutcomes
    /\ h_info = NoResult
    /\ h_content = NoResult
    /\ ai_analysis = NoResult /\ sync_input = NoResult
    /\ sync_first = NoResult /\ sync_calls = 0
    /\ q_text = <<>> /\ q_metrics = NoResult
    /\ v_analysis = NoResult /\ v_text = <<>> /\ v_result = NoResult
    /\ d_text = <<>> /\ d_filename = <<>> /\ d_structure = NoResult
    /\ u_url = <<>> /\ u_is_video = NoResult
    /\ r_endpoint = "none" /\ r_request = NoResult /\ r_route = "none" /\ r_stage = "idle" /\ r_nested = FALSE /\ r_url = <<>> /\ r_fetch = NoResult /\ r_video_info = NoResult /\ r_content = <<>> /\ r_filename = <<>> /\ r_outcome = NoResult /\ r_analysis = NoResult /\ r_synchronized = NoResult /\ r_args = [synchronize |-> NoResult, validate |-> NoResult] /\ r_steps = <<>> /\ r_result = NoResult
    /\ p_content = NoResult /\ p_page_num = 0 /\ p_stats = NoResult
    /\ p_text = <<>> /\ p_result = NoResult
    /\ f_raw = <<>> /\ f_text = <<>> /\ f_stage = "idle" /\ f_report = NoResult
    /\ l_base = <<>> /\ l_anchors = <<>> /\ l_max_pages = 0 /\ l_links = NoResult
    /\ i_text = <<>> /\ i_metrics = NoResult /\ i_once = NoResult /\ i_twice = NoResult
    /\ x_input = NoResult /\ x_hash_order = <<>> /\ x_runs = <<>>

\* extract_video_content: the platform handler is called.
HandleVideo ==
    /\ ~h_info.returned
    /\ h_info' = SetField(VideoHandlerResult(h_url, h_fetch), "returned", TRUE)
    /\ UNCHANGED <<h_url, h_fetch, h_content>>

\* extract_video_content: the combined content
CombineVideoContent ==
    /\ h_info.returned
    /\ ~h_content.returned
    /\ "title" \in DOMAIN h_info
    /\ h_content' = [returned |-> TRUE, raised |-> FALSE,
                     combined_content |-> CombinedVideoContent(h_info)]
    /\ UNCHANGED <<h_url, h_fetch, h_info>>

\* extract_video_content: video_info["title"] raises KeyError
CombineVideoKeyError ==
    /\ h_info.returned
    /\ ~h_content.returned
    /\ "title" \notin DOMAIN h_info
    /\ h_content' = [returned |-> TRUE, raised |-> TRUE, message |-> TitleKeyError]
    /\ UNCHANGED <<h_url, h_fetch, h_info>>

HandlersNext ==
    (HandleVideo \/ CombineVideoContent \/ CombineVideoKeyError) /\ UNCHANGED <<syncVars, qualVars, valVars, docVars, urlVars, pdfVars, routeVars, fileVars, linkVars, improveVars, runVars>>

SpecHandlers == HandlersInit /\ [][HandlersNext]_vars

MaxQualityScore == 100

\* C23: the quality_score the YouTube handler attaches to the video record
\* is within 0..100, whichever of title, description, channel and
\* transcript are found.
C23_QualityScoreInRange ==
    (h_info.returned /\ "quality_score" \in DOMAIN h_info) =>
        h_info.quality_score \in 0..MaxQualityScore

MetadataFields ==
    {"title", "description", "uploader", "view_count", "duration", "upload_date", "tags"}

\* C24: after the platform handler returned, every metadata field (title,
\* description, uploader, view count, duration, upload date, tags) is in
\* the video record and holds a non-empty value: what was found, or a
\* placeholder.
C24_EveryFieldFilled ==
    h_info.returned =>
        \A field \in MetadataFields : field \in DOMAIN h_info /\ h_info[field] # <<>>

-----------------------------------------------------------------------------
(* improve_text_content applied to its own result, with the same metrics *)

\* The texts: one to MaxPieces pieces put end to end.
ImprovePieces ==
    {Rep("x", MaxCleanedChars - 2), Rep("x", 1), Rep("\n", 1), Rep(".", 1), Rep(" ", 1),
     Rep("#", 1)}
ImproveTexts ==
    {TCatAll(pieces) : pieces \in UNION {[1..k -> ImprovePieces] : k \in 1..MaxPieces}}

\* The metrics: structure_integrity and completeness_score, each low or high.
ImproveMetrics ==
    {[structure_integrity |-> s, completeness_score |-> c] :
        s \in {Frac(2, 10), Frac(8, 10)}, c \in {Frac(2, 10), Frac(8, 10)}}

ImproveInit ==
    /\ i_text \in ImproveTexts
    /\ i_metrics \in ImproveMetrics
    /\ i_once = NoResult
    /\ i_twice = NoResult
    /\ ai_analysis = NoResult /\ sync_input = NoResult
    /\ sync_first = NoResult /\ sync_calls = 0
    /\ q_text = <<>> /\ q_metrics = NoResult
    /\ v_analysis = NoResult /\ v_text = <<>> /\ v_result = NoResult
    /\ d_text = <<>> /\ d_filename = <<>> /\ d_structure = NoResult
    /\ u_url = <<>> /\ u_is_video = NoResult
    /\ r_endpoint = "none" /\ r_request = NoResult /\ r_route = "none" /\ r_stage = "idle" /\ r_nested = FALSE /\ r_url = <<>> /\ r_fetch = NoResult /\ r_video_info = NoResult /\ r_content = <<>> /\ r_filename = <<>> /\ r_outcome = NoResult /\ r_analysis = NoResult /\ r_synchronized = NoResult /\ r_args = [synchronize |-> NoResult, validate |-> NoResult] /\ r_steps = <<>> /\ r_result = NoResult
    /\ p_content = NoResult /\ p_page_num = 0 /\ p_stats = NoResult
    /\ p_text = <<>> /\ p_result = NoResult
    /\ f_raw = <<>> /\ f_text = <<>> /\ f_stage = "idle" /\ f_report = NoResult
    /\ l_base = <<>> /\ l_anchors = <<>> /\ l_max_pages = 0 /\ l_links = NoResult
    /\ h_url = <<>> /\ h_fetch = NoResult /\ h_info = NoResult /\ h_content = NoResult
    /\ x_input = NoResult /\ x_hash_order = <<>> /\ x_runs = <<>>

\* improve_text_content(text, metrics)
ImproveOnce ==
    /\ i_once = NoResult
    /\ i_once' = [returned |-> TRUE, text |-> ImproveTextContentWith(i_text, i_metrics)]
    /\ UNCHANGED <<i_text, i_metrics, i_twice>>

\* improve_text_content(improve_text_content(text, metrics), metrics)
ImproveTwice ==
    /\ i_once.returned
    /\ i_twice = NoResult
    /\ i_twice' = [returned |-> TRUE, text |-> ImproveTextContentWith(i_once.text, i_metrics)]
    /\ UNCHANGED <<i_text, i_metrics, i_once>>

ImproveNext == (ImproveOnce \/ ImproveTwice) /\ UNCHANGED <<syncVars, qualVars, valVars, docVars, urlVars, pdfVars, routeVars, fileVars, linkVars, handlerVars, runVars>>

SpecImprove == ImproveInit /\ [][ImproveNext]_vars

\* C27: improve_text_content is idempotent for fixed metrics: for every text,
\* also one longer than the cap of 20,000 characters, and every metrics,
\* with structure_integrity and completeness_score low or high, the result
\* of improving the improved text is the improved text.
C27_ImproveIsIdempotent ==
    i_twice.returned => i_twice.text = i_once.text

-----------------------------------------------------------------------------
(* synchronize_graph_data run again on the same input.  list(missing_nodes) *)
(* lists a set of str in the order of the hashes of its members; the hash   *)
(* of a str is salted with a seed the interpreter draws when it starts, so  *)
(* the order is fixed while the server runs and redrawn when it restarts.   *)

MaxRuns == 2

\* The names of the endpoints, stripped
EndpointNames == {Strip(n) : n \in NameChoices} \ {<<>>}

\* The orders the hashing can give the names, one for each seed
HashOrders == Orderings(EndpointNames)

\* list(S) for a set S of names
ListOfSet(S, hash_order) ==
    LET at(n) == CHOOSE i \in 1..Len(hash_order) : hash_order[i] = n
    IN  CHOOSE order \in Orderings(S) :
            \A i, j \in 1..Cardinality(S) : i < j => at(order[i]) < at(order[j])

\* synchronize_graph_data(x) in an interpreter with the given order
SynchronizeGraphDataUnder(x, hash_order) ==
    LET all_nodes == AllNodes(x.entities, x.concepts)
        missing_nodes == MissingNodes(x.relationships, all_nodes)
    IN  IF missing_nodes # {}
        THEN [x EXCEPT !.entities = x.entities \o ListOfSet(missing_nodes, hash_order)]
        ELSE x

RunsInit ==
    /\ x_input \in AnalysisInputs
    /\ x_hash_order \in HashOrders
    /\ x_runs = <<>>
    /\ ai_analysis = NoResult /\ sync_input = NoResult
    /\ sync_first = NoResult /\ sync_calls = 0
    /\ q_text = <<>> /\ q_metrics = NoResult
    /\ v_analysis = NoResult /\ v_text = <<>> /\ v_result = NoResult
    /\ d_text = <<>> /\ d_filename = <<>> /\ d_structure = NoResult
    /\ u_url = <<>> /\ u_is_video = NoResult
    /\ r_endpoint = "none" /\ r_request = NoResult /\ r_route = "none" /\ r_stage = "idle" /\ r_nested = FALSE /\ r_url = <<>> /\ r_fetch = NoResult /\ r_video_info = NoResult /\ r_content = <<>> /\ r_filename = <<>> /\ r_outcome = NoResult /\ r_analysis = NoResult /\ r_synchronized = NoResult /\ r_args = [synchronize |-> NoResult, validate |-> NoResult] /\ r_steps = <<>> /\ r_result = NoResult
    /\ p_content = NoResult /\ p_page_num = 0 /\ p_stats = NoResult
    /\ p_text = <<>> /\ p_result = NoResult
    /\ f_raw = <<>> /\ f_text = <<>> /\ f_stage = "idle" /\ f_report = NoResult
    /\ l_base = <<>> /\ l_anchors = <<>> /\ l_max_pages = 0 /\ l_links = NoResult
    /\ h_url = <<>> /\ h_fetch = NoResult /\ h_info = NoResult /\ h_content = NoResult
    /\ i_text = <<>> /\ i_metrics = NoResult /\ i_once = NoResult /\ i_twice = NoResult

\* synchronize_graph_data(x_input), in the running interpreter
SynchronizeRun ==
    /\ Len(x_runs) < MaxRuns
    /\ x_runs' = Append(x_runs, SynchronizeGraphDataUnder(x_input, x_hash_order))
    /\ UNCHANGED <<x_input, x_hash_order>>

\* The server is started again: the interpreter draws a new seed.
Restart ==
    /\ x_hash_order' \in HashOrders
    /\ UNCHANGED <<x_input, x_runs>>

RunsNext == (SynchronizeRun \/ Restart) /\ UNCHANGED <<syncVars, qualVars, valVars, docVars, urlVars, pdfVars, routeVars, fileVars, linkVars, handlerVars, improveVars>>

SpecRuns == RunsInit /\ [][RunsNext]_vars

\* C28: two runs of synchronize_graph_data on the same input, with two or
\* more relationship endpoints missing from entities and concepts, return
\* the same entities list in the same order.
C28_SameOrderEveryRun ==
    (/\ Len(x_runs) = MaxRuns
     /\ Cardinality(MissingNodes(x_input.relationships,
                                 AllNodes(x_input.entities, x_input.concepts))) >= 2) =>
        x_runs[1].entities = x_runs[2].entities

-----------------------------------------------------------------------------
(* What the structurer keeps of the lines of its input *)

\* The numbers, from 1, of the lines the loop of the mode in use took for
\* headings: the line_number of the directory entries it appended.
DetectedHeadings(lines, filename) ==
    LET scanned ==
            IF IsGithubContent(JoinLines(lines), filename)
            THEN GithubScan([sections |-> <<>>, directory |-> <<>>,
                             current_section |-> <<>>], 0, lines)
            ELSE TraditionalScan(
                     [sections |-> <<>>, directory |-> <<>>,
                      current_section |-> [title |-> DocumentStartTitle, content |-> <<>>,
                                           level |-> 0, line_start |-> 0]],
                     0, lines)
    IN  {scanned.directory[k].line_number : k \in 1..Len(scanned.directory)}

\* The numbers, from 1, of the lines that are neither blank nor headings
ContentLineNumbers(lines, filename) ==
    {i \in 1..Len(lines) :
        TStrip(lines[i]) # <<>> /\ i \notin DetectedHeadings(lines, filename)}

\* The lines of the given numbers, stripped, in the order of the input
RECURSIVE StrippedLinesFrom(_, _, _)
StrippedLinesFrom(lines, numbers, i) ==
    IF i > Len(lines) THEN <<>>
    ELSE (IF i \in numbers THEN <<TStrip(lines[i])>> ELSE <<>>)
             \o StrippedLinesFrom(lines, numbers, i + 1)

\* The non-blank lines of the content of a section
SectionLines(section) ==
    SelectSeq(SplitLines(section.content), LAMBDA line : line # <<>>)

\* The numbers, from 1, of the lines from line_start to line_end of a section
SectionRange(section) == (section.line_start + 1)..(section.line_end + 1)

\* C30: the structurer loses no content: for an input of at least 100
\* characters, in both modes, every line that is neither blank nor detected
\* as a heading lies between line_start and line_end of exactly one returned
\* section, and the non-blank lines of the content of each section are those
\* lines of its range, stripped, in the order of the input.
C30_NoContentLost ==
    (d_structure.returned /\ d_structure.structure_type # "empty") =>
        LET content_lines == ContentLineNumbers(d_text, d_filename)
            sections == d_structure.sections
        IN  content_lines # {} =>
                /\ \A i \in content_lines :
                      Cardinality({k \in 1..Len(sections) : i \in SectionRange(sections[k])}) = 1
                /\ \A k \in 1..Len(sections) :
                      SectionLines(sections[k])
                          = StrippedLinesFrom(d_text, content_lines \cap SectionRange(sections[k]), 1)

\* A repository-mode structure of two or more sections for an input that
\* holds a heading between two lines of content.
C30_Witness ==
    /\ d_structure.returned
    /\ d_structure.structure_type = "github_repository"
    /\ Len(d_structure.sections) >= 2
    /\ \E i, j \in ContentLineNumbers(d_text, d_filename) :
          \E h \in DetectedHeadings(d_text, d_filename) : i < h /\ h < j

====
